---- MODULE Spec2Model ----
(***************************************************************************)
(* Hygie-AI, backend/bmp_service: the clinical rule-evaluation core.       *)
(*                                                                         *)
(*   rules.py             interaction catalog and detect_interactions      *)
(*   interactions_ref.py  the ANSM thesaurus loaders (CSV, PDF)            *)
(*   stopp_start.py       the STOPP/START criterion registry               *)
(*   anticholinergic.py   the burden-score table and its scorer            *)
(*   drug_repository.py   the BDPM reference repository                    *)
(*   normalization.py     normalize                                        *)
(*   bdpm_loader.py       the code-to-substance mapping, normalize_drug    *)
(*   main.py              run_bmp, the pipeline                            *)
(*   renal.py             calculate_clcr, adjust_for_renal                 *)
(*   llm_orchestrator.py  generate_summary and its fallbacks               *)
(*                                                                         *)
(* Python strings are modelled by TLA+ strings over a finite universe;     *)
(* str.upper, str.strip and the ordering used by sorted() are tabulated    *)
(* on that universe (accents of the French descriptions are dropped).      *)
(***************************************************************************)
EXTENDS Naturals, Integers, Sequences, FiniteSets, TLC

VARIABLES
    resources,      \* the files of the resources directory, in glob order
    rulesLoaded,    \* rules.py has been imported
    thesaurus,      \* the value cached by get_interactions()
    _INTERACTIONS,  \* rules._INTERACTIONS
    medications,    \* argument of the last detect_interactions call
    problems,       \* its return value
    hits,           \* the catalog keys whose description it appended, in order
    lookups,        \* the keys it tested against the catalog (the set `seen`)
    op,             \* the operation whose result is held, "idle" when none
    bdpmFiles,      \* the BDPM extracts exist and parse: get_repository() returns
    yamlFile,       \* data/stopp_start_v3.yaml: whether it exists, its records
    stoppLoaded,    \* stopp_start.py has been imported
    _RULES,         \* stopp_start._RULES
    demo,           \* arguments of the last evaluate_rules call
    meds,
    stops,          \* its return value (stops, starts)
    starts,
    outcome,        \* "ok", or the exception the call raised
    scoreFiles,     \* the *CIA-ACB*.csv files of the resources directory, in glob order
    _SCORES_CACHE,  \* anticholinergic._SCORES_CACHE
    _CACHE_DIR,     \* anticholinergic._CACHE_DIR
    burdenMeds,     \* argument of the last compute_burden_score call
    burden,         \* its return value
    specFile,       \* data/CIS_bdpm.csv: whether it exists, its rows
    compoFile,      \* data/CIS_COMPO_bdpm.csv: whether it exists, its rows
    repo,           \* the value cached by get_repository()
    normName,       \* argument of the last normalize call
    normResult,     \* its return value, or the exception it raised
    loaderData,     \* data/bdpm.sqlite and data/bdpm_substances.csv
    mappingCache,   \* the value cached by bdpm_loader.get_mapping()
    request,        \* the request of the last run_bmp call, with the summarizer's behaviour
    response,       \* what that run computed and returned
    tableCache,     \* per lazily built table: the object its cache holds, if any
    cacheDirSet,    \* anticholinergic._CACHE_DIR equals the resources directory
    builds,         \* per lazily built table: how many times its builder has run
    threads,        \* per request thread: its position in a first access
    renalArgs,      \* arguments of the last renal.py call
    renalResult,    \* its return value, or the exception it raised
    summaryCall,    \* the generate_summary call in progress or last finished
    loadEnv         \* what the first get_interactions() call met, None before it

varsRules == <<resources, rulesLoaded, thesaurus, _INTERACTIONS,
               medications, problems, hits, lookups>>

varsStopp == <<bdpmFiles, yamlFile, stoppLoaded, _RULES, demo, meds, stops, starts, outcome>>

varsBurden == <<scoreFiles, _SCORES_CACHE, _CACHE_DIR, burdenMeds, burden>>

varsNorm == <<specFile, compoFile, repo, normName, normResult>>

varsPipe == <<loaderData, mappingCache, request, response>>

varsThreads == <<tableCache, cacheDirSet, builds, threads>>

varsRenal == <<renalArgs, renalResult>>

varsAux == <<varsThreads, varsRenal, summaryCall, loadEnv>>

vars == <<varsRules, varsStopp, varsBurden, varsNorm, varsPipe, varsAux, op>>

-----------------------------------------------------------------------------
(* Bounds of the model.                                                    *)

MaxMeds == 3        \* longest medication list passed to an operation
MaxRows == 2        \* rows of a CSV file, lines of a PDF file
MaxItems == 2       \* records of the external criterion file
MaxPair == 2        \* longest medication list tried on every catalog
MaxScoreRows == 2   \* rows of a burden-score file
MaxBdpmRows == 2    \* rows of a BDPM extract
MaxThreads == 2     \* request threads making a first access
MaxFiles == 2       \* files of the resources directory read by get_interactions

-----------------------------------------------------------------------------
(* Strings.                                                                *)

\* Every string of the model, in the order Python compares str values
\* (code point order: space < digits < upper case < "_" < lower case).
StrOrder ==
    << "", " ibuprofen ", "3400932716455",
       "ACETYLSALICYLIC_ACID", "ADVIL", "APIXABAN", "ATORVASTATIN", "CARBAMAZEPINE",
       "CLARITHROMYCIN", "DEXCHLORPHENIRAMINE", "DIAZEPAM", "DIGOXIN",
       "DIPHENHYDRAMINE", "ERYTHROMYCIN", "IBUPROFEN", "ITRACONAZOLE",
       "Ibuprofen", "KCL", "KCl", "LISINOPRIL", "LITHIUM", "Lisinopril",
       "MORPHINE", "NITROGLYCERIN", "OXYBUTYNIN", "PARACETAMOL",
       "PERINDOPRIL", "POTASSIUM", "Paracetamol", "RAMIPRIL", "SILDENAFIL",
       "SIMVASTATIN", "TRIMETHOPRIM", "VERAPAMIL", "WARFARIN",
       "diphenhydramine", "ibuprofen", "lisinopril", "oxybutynin",
       "warfarin" >>

Strings == {StrOrder[i] : i \in 1..Len(StrOrder)}

StrIndex == [s \in Strings |-> CHOOSE i \in 1..Len(StrOrder) : StrOrder[i] = s]

\* s <= t as Python compares strings
StrLeq(s, t) == StrIndex[s] <= StrIndex[t]

\* str.strip()
Strip(s) ==
    CASE s = " ibuprofen " -> "ibuprofen"
      [] s = " aspirin "   -> "aspirin"
      [] s = " Advil "     -> "Advil"
      [] s = " f "         -> "f"
      [] OTHER             -> s

\* str.upper()
Upper(s) ==
    CASE s = " ibuprofen "     -> " IBUPROFEN "
      [] s = "Ibuprofen"       -> "IBUPROFEN"
      [] s = "ibuprofen"       -> "IBUPROFEN"
      [] s = "KCl"             -> "KCL"
      [] s = "Lisinopril"      -> "LISINOPRIL"
      [] s = "lisinopril"      -> "LISINOPRIL"
      [] s = "Paracetamol"     -> "PARACETAMOL"
      [] s = "diphenhydramine" -> "DIPHENHYDRAMINE"
      [] s = "oxybutynin"      -> "OXYBUTYNIN"
      [] s = "warfarin"        -> "WARFARIN"
      [] s = "kcl"             -> "KCL"
      [] s = "c09aa"           -> "C09AA"
      [] s = "start"           -> "START"
      [] s = "Stop"            -> "STOP"
      [] s = " aspirin "       -> " ASPIRIN "
      [] s = "aspirin"         -> "ASPIRIN"
      [] s = " Advil "         -> " ADVIL "
      [] s = " f "             -> " F "
      [] s = "f"               -> "F"
      [] s = "femme"           -> "FEMME"
      [] s = "Advil"           -> "ADVIL"
      [] s = "advil"           -> "ADVIL"
      [] s = "Doliprane"       -> "DOLIPRANE"
      [] s = "doliprane"       -> "DOLIPRANE"
      [] s = "paracetamol"     -> "PARACETAMOL"
      [] s = "Ibuprofene"      -> "IBUPROFENE"
      [] s = "cis"             -> "CIS"
      [] s = "CodeCis"         -> "CODECIS"
      [] s = "Libelle"         -> "LIBELLE"
      [] s = "Substance"       -> "SUBSTANCE"
      [] s = "x"               -> "X"
      [] s = "zestril"         -> "ZESTRIL"
      [] OTHER                 -> s

\* sorted((a, b)) as a tuple
SortedPair(a, b) == IF StrLeq(a, b) THEN <<a, b>> ELSE <<b, a>>

\* Python's dict.update / dict comprehension insertion: the right operand wins
DictUpdate(d, e) ==
    [k \in (DOMAIN d) \cup (DOMAIN e) |-> IF k \in DOMAIN e THEN e[k] ELSE d[k]]

EmptyDict == [k \in {} |-> ""]

SeqsUpTo(S, n) == UNION {[1..k -> S] : k \in 0..n}

Range(s) == {s[i] : i \in 1..Len(s)}

-----------------------------------------------------------------------------
(* interactions_ref.py: the thesaurus loaders.                             *)

\* Mutant of _order: the names are sorted as written, not uppercased.
OrderNoUpper(a, b) == SortedPair(a, b)

\* _order(a, b)
_order(a, b) == SortedPair(Upper(a), Upper(b))

\* The gravity column after row[2].strip().upper()
GravNorm(g) == IF g = "c" THEN "C" ELSE IF g = "d" THEN "D" ELSE g

AnsmDescription(grav) ==
    IF grav = "C" THEN "Interaction ANSM (C)" ELSE "Interaction ANSM (D)"

\* _load_from_csv._iter_rows: rows are the ";"-separated fields of each line
RECURSIVE _iter_rows(_, _)
_iter_rows(rows, mapping) ==
    IF rows = <<>> THEN mapping
    ELSE LET row == Head(rows) IN
         IF Len(row) < 3 THEN _iter_rows(Tail(rows), mapping)
         ELSE LET a    == Strip(row[1])
                  b    == Strip(row[2])
                  grav == GravNorm(row[3])
              IN IF a = "" \/ b = "" \/ grav \notin {"C", "D"}
                 THEN _iter_rows(Tail(rows), mapping)
                 ELSE _iter_rows(Tail(rows),
                        DictUpdate(mapping,
                                   [k \in {_order(a, b)} |-> AnsmDescription(grav)]))

SizeLimit == 200000

\* The pandas branch of _load_from_csv: read_csv(usecols=[0,1,2]) gives NaN
\* to a missing or empty field, dropna removes the row, the gravity is
\* stripped and uppercased and kept when C or D, the names are stripped
\* after the emptiness test.
RECURSIVE PandasRows(_, _)
PandasRows(rows, mapping) ==
    IF rows = <<>> THEN mapping
    ELSE LET row == Head(rows) IN
         IF Len(row) < 3 \/ row[1] = "" \/ row[2] = "" \/ row[3] = ""
            \/ GravNorm(row[3]) \notin {"C", "D"}
         THEN PandasRows(Tail(rows), mapping)
         ELSE PandasRows(Tail(rows),
                DictUpdate(mapping,
                           [k \in {_order(Strip(row[1]), Strip(row[2]))} |->
                                AnsmDescription(GravNorm(row[3]))]))

\* _load_from_csv(fp); env.size: fp.stat().st_size, env.io: the file can be
\* opened and decoded, env.pd: pandas can be imported
_load_from_csv(fp, env) ==
    IF env.size < SizeLimit
    THEN IF env.io THEN _iter_rows(fp.rows, EmptyDict) ELSE EmptyDict
    ELSE IF ~env.pd \/ ~env.io THEN EmptyDict
         ELSE PandasRows(fp.rows, EmptyDict)

\* _PAIR_RE: a run of letters, hyphens and spaces on each side of a "/".
\* A line is held as its "/"-separated segments.
PairText(s) == s # "" /\ s # "ACETYLSALICYLIC_ACID"

PdfDescription == "Interaction ANSM (gravite non classee)"

\* _load_from_pdf(fp); env.text: extract_text succeeds
RECURSIVE PdfLines(_, _)
PdfLines(lines, mapping) ==
    IF lines = <<>> THEN mapping
    ELSE LET line == Head(lines) IN
         IF Len(line) < 2 \/ ~PairText(line[1]) \/ ~PairText(line[2])
         THEN PdfLines(Tail(lines), mapping)
         ELSE PdfLines(Tail(lines),
                DictUpdate(mapping,
                           [k \in {_order(Strip(line[1]), Strip(line[2]))} |->
                                PdfDescription]))

_load_from_pdf(fp, env) ==
    IF env.text THEN PdfLines(fp.rows, EmptyDict) ELSE EmptyDict

\* get_interactions(): the first CSV file with data, else the first PDF file
\* with data, else {}
RECURSIVE FirstData(_, _, _)
FirstData(files, kind, env) ==
    IF files = <<>> THEN EmptyDict
    ELSE LET fp   == Head(files)
             data == IF fp.kind # kind THEN EmptyDict
                     ELSE IF kind = "csv" THEN _load_from_csv(fp, env)
                     ELSE _load_from_pdf(fp, env)
         IN IF DOMAIN data # {} THEN data
            ELSE FirstData(Tail(files), kind, env)

\* The first file with data in glob order, whatever its kind
RECURSIVE FirstAnyKind(_, _)
FirstAnyKind(files, env) ==
    IF files = <<>> THEN EmptyDict
    ELSE LET fp   == Head(files)
             data == IF fp.kind = "csv" THEN _load_from_csv(fp, env)
                     ELSE _load_from_pdf(fp, env)
         IN IF DOMAIN data # {} THEN data
            ELSE FirstAnyKind(Tail(files), env)

\* Mutant of get_interactions: the files are tried in glob order, CSV and
\* PDF files alike.
GetInteractionsGlobOrder(env) == FirstAnyKind(resources, env)

get_interactions(env) ==
    LET csv == FirstData(resources, "csv", env)
    IN IF DOMAIN csv # {} THEN csv
       ELSE FirstData(resources, "pdf", env)

\* What the file system and the installation decide at load time
LoadEnvs ==
    [size : {SizeLimit - 1, SizeLimit}, io : BOOLEAN, pd : BOOLEAN, text : BOOLEAN]

-----------------------------------------------------------------------------
(* rules.py                                                                *)

_INTERACTIONS_RAW ==
    << << <<"LISINOPRIL", "IBUPROFEN">>,
          "Association d'un IEC et d'un AINS : risque d'insuffisance renale aigue." >>,
       << <<"ACETYLSALICYLIC_ACID", "APIXABAN">>,
          "Double traitement anti-thrombotique, risque hemorragique accru." >>,
       << <<"ATORVASTATIN", "CLARITHROMYCIN">>,
          "Statine + macrolide : risque augmente de rhabdomyolyse." >>,
       << <<"SIMVASTATIN", "CLARITHROMYCIN">>,
          "Statine + macrolide : risque augmente de rhabdomyolyse." >>,
       << <<"WARFARIN", "TRIMETHOPRIM">>,
          "Warfarine + trimethoprime : risque hemorragique accru." >>,
       << <<"LITHIUM", "IBUPROFEN">>,
          "Lithium + AINS : risque de toxicite du lithium." >>,
       << <<"MORPHINE", "DIAZEPAM">>,
          "Opioide + benzodiazepine : risque de depression respiratoire." >>,
       << <<"WARFARIN", "IBUPROFEN">>,
          "Warfarine + AINS : risque hemorragique." >>,
       << <<"SIMVASTATIN", "ITRACONAZOLE">>,
          "Statine + azole : myopathie/rhabdomyolyse." >>,
       << <<"DIGOXIN", "VERAPAMIL">>,
          "Digoxine + verapamil : bradycardie/surdosage." >>,
       << <<"SILDENAFIL", "NITROGLYCERIN">>,
          "Sildenafil + derive nitre : hypotension severe." >>,
       << <<"CARBAMAZEPINE", "ERYTHROMYCIN">>,
          "Carbamazepine + erythromycine : hausse taux carbamazepine." >> >>

\* {tuple(sorted(pair)): desc for pair, desc in _INTERACTIONS_RAW}
RECURSIVE StaticDict(_, _)
StaticDict(raw, d) ==
    IF raw = <<>> THEN d
    ELSE LET pair == Head(raw)[1]
             desc == Head(raw)[2]
         IN StaticDict(Tail(raw),
                DictUpdate(d, [k \in {SortedPair(pair[1], pair[2])} |-> desc]))

StaticInteractions == StaticDict(_INTERACTIONS_RAW, EmptyDict)

\* Mutants of the merge: the static table written over the thesaurus, and
\* the thesaurus alone.
MergeStaticWins(static, external) == DictUpdate(external, static)

MergeExternalOnly(static, external) == external

\* _INTERACTIONS = {...}; _INTERACTIONS.update(get_interactions())
MergeCatalog(static, external) == DictUpdate(static, external)

\* _key(a, b)
_key(a, b) == SortedPair(Upper(a), Upper(b))

\* Mutant of the loops: the visited set `seen` is not consulted.
RECURSIVE DetectNoSeen(_, _, _, _)
DetectNoSeen(ms, i, j, acc) ==
    IF i > Len(ms) THEN acc
    ELSE IF j > Len(ms) THEN DetectNoSeen(ms, i + 1, i + 2, acc)
    ELSE LET key == SortedPair(Upper(ms[i]), Upper(ms[j])) IN
         DetectNoSeen(ms, i, j + 1,
                [seen     |-> acc.seen \cup {key},
                 problems |-> IF key \in DOMAIN _INTERACTIONS
                              THEN Append(acc.problems, _INTERACTIONS[key])
                              ELSE acc.problems,
                 hits     |-> IF key \in DOMAIN _INTERACTIONS
                              THEN Append(acc.hits, key)
                              ELSE acc.hits])

\* Mutant of the loops: b runs over the one position after i only.
RECURSIVE DetectAdjacent(_, _, _, _)
DetectAdjacent(ms, i, j, acc) ==
    IF i > Len(ms) THEN acc
    ELSE IF j > Len(ms) \/ j > i + 1 THEN DetectAdjacent(ms, i + 1, i + 2, acc)
    ELSE LET key == SortedPair(Upper(ms[i]), Upper(ms[j])) IN
         DetectAdjacent(ms, i, j + 1,
                [seen     |-> acc.seen \cup {key},
                 problems |-> IF key \in DOMAIN _INTERACTIONS /\ key \notin acc.seen
                              THEN Append(acc.problems, _INTERACTIONS[key])
                              ELSE acc.problems,
                 hits     |-> IF key \in DOMAIN _INTERACTIONS /\ key \notin acc.seen
                              THEN Append(acc.hits, key)
                              ELSE acc.hits])

\* The two nested loops of detect_interactions over ms, the uppercased
\* list: i runs over the positions, j over the positions after i.
RECURSIVE DetectLoop(_, _, _, _)
DetectLoop(ms, i, j, acc) ==
    IF i > Len(ms) THEN acc
    ELSE IF j > Len(ms) THEN DetectLoop(ms, i + 1, i + 2, acc)
    ELSE LET key == _key(ms[i], ms[j]) IN
         IF key \in acc.seen THEN DetectLoop(ms, i, j + 1, acc)
         ELSE DetectLoop(ms, i, j + 1,
                [seen     |-> acc.seen \cup {key},
                 problems |-> IF key \in DOMAIN _INTERACTIONS
                              THEN Append(acc.problems, _INTERACTIONS[key])
                              ELSE acc.problems,
                 hits     |-> IF key \in DOMAIN _INTERACTIONS
                              THEN Append(acc.hits, key)
                              ELSE acc.hits])

DetectRun(meds_in) ==
    DetectLoop([i \in 1..Len(meds_in) |-> Upper(meds_in[i])], 1, 2,
               [seen |-> {}, problems |-> <<>>, hits |-> <<>>])

\* detect_interactions(medications)
detect_interactions(meds_in) == DetectRun(meds_in).problems

-----------------------------------------------------------------------------
(* drug_repository.py: the static ATC table.                               *)

\* _ATC_TO_SUBS.get(code, set())
_ATC_TO_SUBS(code) ==
    CASE code = "C10AA" -> {"ATROVASTATIN", "ATORVASTATIN", "SIMVASTATIN", "PRAVASTATIN"}
      [] code = "J01FA" -> {"CLARITHROMYCIN", "ERYTHROMYCIN", "AZITHROMYCIN"}
      [] code = "M01AE" -> {"IBUPROFEN", "KETOPROFEN", "NAPROXEN"}
      [] code = "C09AA" -> {"LISINOPRIL", "RAMIPRIL", "PERINDOPRIL"}
      [] code = "C09CA" -> {"LOSARTAN", "VALSARTAN", "CANDESARTAN"}
      [] code = "B01AF" -> {"APIXABAN", "RIVAROXABAN", "DABIGATRAN"}
      [] code = "N02AA" -> {"MORPHINE", "OXYCODONE", "HYDROMORPHONE"}
      [] OTHER          -> {}

\* substances_from_atc(code)
substances_from_atc(code) == _ATC_TO_SUBS(Upper(code))

-----------------------------------------------------------------------------
(* stopp_start.py                                                          *)

\* int(s): the value, or ValueError
int(s) ==
    CASE s = "0"   -> [raised |-> FALSE, value |-> 0]
      [] s = "1"   -> [raised |-> FALSE, value |-> 1]
      [] s = "2"   -> [raised |-> FALSE, value |-> 2]
      [] s = "3"   -> [raised |-> FALSE, value |-> 3]
      [] s = "4"   -> [raised |-> FALSE, value |-> 4]
      [] s = "5"   -> [raised |-> FALSE, value |-> 5]
      [] s = "9"   -> [raised |-> FALSE, value |-> 9]
      [] s = "64"  -> [raised |-> FALSE, value |-> 64]
      [] s = "65"  -> [raised |-> FALSE, value |-> 65]
      [] s = "100" -> [raised |-> FALSE, value |-> 100]
      [] s = "-1"  -> [raised |-> FALSE, value |-> -1]
      [] s = "-2"  -> [raised |-> FALSE, value |-> -2]
      [] s = "-3"  -> [raised |-> FALSE, value |-> -3]
      [] OTHER     -> [raised |-> TRUE, value |-> 0]

\* dict.get(key, default)
Get(d, key, default) == IF key \in DOMAIN d THEN d[key] ELSE default

\* has_med(meds, target)
has_med(meds_in, target) ==
    {Upper(meds_in[i]) : i \in 1..Len(meds_in)} \cap target # {}

\* _rule_A1(demo, meds)
_rule_A1(d, meds_in) ==
    IF Get(d, "age", 0) < 65 THEN FALSE
    ELSE has_med(meds_in, {"DIPHENHYDRAMINE", "DEXCHLORPHENIRAMINE", "OXYBUTYNIN"})

\* _rule_B2(demo, meds)
_rule_B2(d, meds_in) ==
    /\ has_med(meds_in, {"LISINOPRIL", "RAMIPRIL", "PERINDOPRIL"})
    /\ has_med(meds_in, {"POTASSIUM", "KCL"})

\* Mutant of _pred: the upper age bound is exclusive.
PredUpperExclusive(rule, d, meds_in) ==
    LET age == Get(d, "age", 0) IN
    IF age < rule.amin \/ age >= rule.amax THEN FALSE
    ELSE has_med(meds_in, rule.substances)

\* _load_yaml_rules._make_pred._pred(demo, meds), closed over
\* (substances, amin, amax)
_pred(rule, d, meds_in) ==
    LET age == Get(d, "age", 0) IN
    IF age < rule.amin \/ age > rule.amax THEN FALSE
    ELSE has_med(meds_in, rule.substances)

\* Rule.predicate(demo, meds): the function the rule was built with
Predicate(rule, d, meds_in) ==
    CASE rule.predicate = "_rule_A1" -> _rule_A1(d, meds_in)
      [] rule.predicate = "_rule_B2" -> _rule_B2(d, meds_in)
      [] OTHER                       -> _pred(rule, d, meds_in)

\* Rule(id, description, predicate, phase="STOPP"); a closure _pred is held
\* as the values it closes over
Rule(id, description, predicate, phase) ==
    [id |-> id, description |-> description, predicate |-> predicate,
     phase |-> phase, substances |-> {}, amin |-> 0, amax |-> 0]

\* The static _RULES list
StaticRules ==
    << Rule("A1", "Anticholinergic chez >65 ans", "_rule_A1", "STOPP"),
       Rule("B2", "IEC + supplement de potassium", "_rule_B2", "STOPP") >>

\* int(item.get(key, default)); the scalars of the file are held as text
AgeBound(item, key, default) ==
    IF key \in DOMAIN item THEN int(item[key]).value ELSE default

\* One pass of the loop of _load_yaml_rules over an enabled item
YamlRule(item) ==
    LET subs == IF "atc" \in DOMAIN item
                THEN substances_from_atc(item["atc"])
                ELSE {Upper(s) : s \in Range(Get(item, "substances", <<>>))}
    IN [id          |-> item["id"],
        description |-> item["description"],
        predicate   |-> "_pred",
        phase       |-> Upper(Get(item, "phase", "STOPP")),
        substances  |-> subs,
        amin        |-> AgeBound(item, "age_min", 0),
        amax        |-> AgeBound(item, "age_max", 200)]

\* Mutant of the loader: the enabled flag is not read.
RECURSIVE LoadIgnoringEnabled(_, _)
LoadIgnoringEnabled(raw, rules) ==
    IF raw = <<>> THEN rules
    ELSE LoadIgnoringEnabled(Tail(raw), Append(rules, YamlRule(Head(raw))))

\* The loop of _load_yaml_rules over the records of the file
RECURSIVE LoadItems(_, _)
LoadItems(raw, rules) ==
    IF raw = <<>> THEN rules
    ELSE IF ~Get(Head(raw), "enabled", TRUE) THEN LoadItems(Tail(raw), rules)
    ELSE LoadItems(Tail(raw), Append(rules, YamlRule(Head(raw))))

\* _load_yaml_rules()
_load_yaml_rules(file) ==
    IF ~file.exists THEN <<>> ELSE LoadItems(file.items, <<>>)

\* What one pass of the loop raises: int() at lines 109-110, then the
\* subscripts item["id"] and item["description"] at line 123
ItemError(item) ==
    IF "age_min" \in DOMAIN item /\ int(item["age_min"]).raised THEN "ValueError"
    ELSE IF "age_max" \in DOMAIN item /\ int(item["age_max"]).raised THEN "ValueError"
    ELSE IF "id" \notin DOMAIN item \/ "description" \notin DOMAIN item THEN "KeyError"
    ELSE "ok"

RECURSIVE ItemsError(_)
ItemsError(raw) ==
    IF raw = <<>> THEN "ok"
    ELSE IF ~Get(Head(raw), "enabled", TRUE) THEN ItemsError(Tail(raw))
    ELSE IF ItemError(Head(raw)) # "ok" THEN ItemError(Head(raw))
    ELSE ItemsError(Tail(raw))

\* The exception _load_yaml_rules() raises, "ok" when it returns: nothing
\* in it catches what yaml.safe_load (line 96) or the loop raises
LoadError(file) ==
    IF ~file.exists THEN "ok"
    ELSE IF "error" \in DOMAIN file THEN "YAMLError"
    ELSE ItemsError(file.items)

\* Mutant of Rule.applies: the assertion on age is absent.
AppliesUnchecked(rule, d, meds_in) ==
    [raised |-> FALSE, value |-> Predicate(rule, d, meds_in)]

\* Rule.applies(demo, meds)
applies(rule, d, meds_in) ==
    IF "age" \notin DOMAIN d
    THEN [raised |-> TRUE, value |-> FALSE]
    ELSE [raised |-> FALSE, value |-> Predicate(rule, d, meds_in)]

\* Mutant of evaluate_rules: phase STOPP goes to stops, any other phase to
\* starts.
RECURSIVE EvalStoppElseStarts(_, _, _, _)
EvalStoppElseStarts(rules, d, meds_in, acc) ==
    IF rules = <<>> THEN acc
    ELSE LET rule == Head(rules)
             a    == applies(rule, d, meds_in)
         IN IF a.raised THEN [acc EXCEPT !.outcome = "AssertionError"]
            ELSE IF ~a.value THEN EvalStoppElseStarts(Tail(rules), d, meds_in, acc)
            ELSE IF rule.phase = "STOPP"
                 THEN EvalStoppElseStarts(Tail(rules), d, meds_in,
                        [acc EXCEPT !.stops = Append(@, rule.description)])
                 ELSE EvalStoppElseStarts(Tail(rules), d, meds_in,
                        [acc EXCEPT !.starts = Append(@, rule.description)])

\* Mutant of evaluate_rules: a description already in the list is not
\* appended again.
RECURSIVE EvalDedup(_, _, _, _)
EvalDedup(rules, d, meds_in, acc) ==
    IF rules = <<>> THEN acc
    ELSE LET rule == Head(rules)
             a    == applies(rule, d, meds_in)
             Add(l) == IF rule.description \in {l[i] : i \in 1..Len(l)} THEN l
                       ELSE Append(l, rule.description)
         IN IF a.raised THEN [acc EXCEPT !.outcome = "AssertionError"]
            ELSE IF ~a.value THEN EvalDedup(Tail(rules), d, meds_in, acc)
            ELSE IF rule.phase = "START"
                 THEN EvalDedup(Tail(rules), d, meds_in,
                        [acc EXCEPT !.starts = Add(@)])
                 ELSE EvalDedup(Tail(rules), d, meds_in,
                        [acc EXCEPT !.stops = Add(@)])

\* The loop of evaluate_rules over the registry
RECURSIVE EvalLoop(_, _, _, _)
EvalLoop(rules, d, meds_in, acc) ==
    IF rules = <<>> THEN acc
    ELSE LET rule == Head(rules)
             a    == applies(rule, d, meds_in)
         IN IF a.raised THEN [acc EXCEPT !.outcome = "AssertionError"]
            ELSE IF ~a.value THEN EvalLoop(Tail(rules), d, meds_in, acc)
            ELSE IF rule.phase = "START"
                 THEN EvalLoop(Tail(rules), d, meds_in,
                        [acc EXCEPT !.starts = Append(@, rule.description)])
                 ELSE EvalLoop(Tail(rules), d, meds_in,
                        [acc EXCEPT !.stops = Append(@, rule.description)])

\* evaluate_rules(demo, meds)
evaluate_rules(d, meds_in) ==
    EvalLoop(_RULES, d, meds_in, [outcome |-> "ok", stops |-> <<>>, starts |-> <<>>])

-----------------------------------------------------------------------------
(* The criterion registry as a state machine.                              *)

\* Records the external criterion file can hold
YamlItemPool ==
    { [id |-> "Z1", description |-> "desc z1", substances |-> <<"Lisinopril">>,
       age_min |-> "65", age_max |-> "100", enabled |-> TRUE, phase |-> "START"],
      [id |-> "Z2", description |-> "desc z2", substances |-> <<"kcl", "OXYBUTYNIN">>],
      [id |-> "Z3", description |-> "desc z3", substances |-> <<"LISINOPRIL">>,
       enabled |-> FALSE],
      [id |-> "Z4", description |-> "desc z4", substances |-> <<"KCL">>,
       age_max |-> "64", phase |-> "start"],
      [id |-> "Z5", description |-> "desc z5", substances |-> <<"diphenhydramine">>,
       phase |-> "Stop"],
      [id |-> "Y1", description |-> "desc z2", atc |-> "c09aa",
       age_min |-> "0", age_max |-> "100", phase |-> "STOPP"] }

\* Records the loop cannot turn into a criterion: no id, no description, an
\* age bound that is not a number; the last one is disabled
BadItemPool ==
    { [description |-> "desc b1", substances |-> <<"KCL">>],
      [id |-> "B2", substances |-> <<"KCL">>],
      [id |-> "B3", description |-> "desc b3", substances |-> <<"KCL">>,
       age_min |-> "soixante"],
      [id |-> "B4", description |-> "desc b4", substances |-> <<"KCL">>,
       age_max |-> "n/a", enabled |-> FALSE] }

\* A file yaml.safe_load cannot parse
UnparsableFile == [exists |-> TRUE, items |-> <<>>, error |-> "YAMLError"]

YamlFiles ==
    {[exists |-> FALSE, items |-> <<>>], UnparsableFile}
    \cup {[exists |-> TRUE, items |-> it] :
             it \in SeqsUpTo(YamlItemPool \cup BadItemPool, MaxItems)}

Ages == {0, 64, 65, 100, 101, 200, 201}

Demographics ==
    {[k \in {} |-> 0], [k \in {"sex"} |-> "F"]}
    \cup {[k \in {"age"} |-> a] : a \in Ages}

StoppNames == {"diphenhydramine", "LISINOPRIL", "KCl"}

StoppLists == SeqsUpTo(StoppNames, MaxMeds)

IdleStopp ==
    /\ bdpmFiles = TRUE
    /\ yamlFile = [exists |-> FALSE, items |-> <<>>]
    /\ stoppLoaded = FALSE
    /\ _RULES = StaticRules
    /\ demo = [k \in {} |-> 0]
    /\ meds = <<>>
    /\ stops = <<>>
    /\ starts = <<>>
    /\ outcome = "ok"

RulesUnloaded ==
    /\ rulesLoaded = FALSE
    /\ thesaurus = EmptyDict
    /\ _INTERACTIONS = EmptyDict
    /\ medications = <<>>
    /\ problems = <<>>
    /\ hits = <<>>
    /\ lookups = {}

IdleRules ==
    /\ resources = <<>>
    /\ RulesUnloaded

\* Optional values: None, or a value held in a one-element tuple
None == <<>>

Some(x) == <<x>>

IdleBurden ==
    /\ scoreFiles = <<>>
    /\ _SCORES_CACHE = None
    /\ _CACHE_DIR = None
    /\ burdenMeds = <<>>
    /\ burden = 0

NoFile == [exists |-> FALSE, rows |-> <<>>]

NoResult == [raised |-> FALSE, value |-> ""]

IdleNorm ==
    /\ specFile = NoFile
    /\ compoFile = NoFile
    /\ repo = None
    /\ normName = ""
    /\ normResult = NoResult

NoRequest == [names |-> <<>>, age |-> 0, sex |-> "U", summarizer |-> "returns"]

NoResponse ==
    [status |-> "none", meds_norm |-> <<>>, interactions |-> <<>>, stops |-> <<>>,
     starts |-> <<>>, burden |-> 0, calls |-> <<>>, problems |-> <<>>,
     recommendations |-> <<>>]

NoLoaderData == [db |-> NoFile, csv |-> NoFile]

IdlePipe ==
    /\ loaderData = NoLoaderData
    /\ mappingCache = None
    /\ request = NoRequest
    /\ response = NoResponse

\* The lazily built tables: the burden-score table (_load_scores), the
\* interaction thesaurus (get_interactions), the code-to-substance mapping
\* (get_mapping)
Tables == {"scores", "interactions", "mapping"}

Threads == 1..MaxThreads

NoThread == [pc |-> "idle", table |-> "scores", local |-> 0, got |-> 0]

IdleThreads ==
    /\ tableCache = [tab \in Tables |-> None]
    /\ cacheDirSet = FALSE
    /\ builds = [tab \in Tables |-> 0]
    /\ threads = [t \in Threads |-> NoThread]

NoRenalArgs == [creatinine |-> 10, age |-> 1, weight |-> 1, sex |-> "M"]

IdleRenal ==
    /\ renalArgs = NoRenalArgs
    /\ renalResult = NoResult

NoSummary ==
    [pc |-> "idle", model_name |-> "", hf_key |-> FALSE, pass |-> 1,
     responses |-> <<>>, input |-> "prompt", strategy |-> None, local |-> None,
     remote |-> None, result |-> NoResult]

IdleAux ==
    /\ IdleThreads
    /\ IdleRenal
    /\ summaryCall = NoSummary
    /\ loadEnv = None

InitStopp ==
    /\ IdleRules
    /\ IdleBurden
    /\ IdleNorm
    /\ IdlePipe
    /\ IdleAux
    /\ op = "idle"
    /\ bdpmFiles \in BOOLEAN
    /\ yamlFile \in YamlFiles
    /\ stoppLoaded = FALSE
    /\ _RULES = StaticRules
    /\ demo = [k \in {} |-> 0]
    /\ meds = <<>>
    /\ stops = <<>>
    /\ starts = <<>>
    /\ outcome = "ok"

\* import backend.bmp_service.stopp_start: line 34 builds the repository
\* singleton, line 130 extends _RULES, once
ImportStopp ==
    /\ ~stoppLoaded
    /\ op = "idle"
    /\ bdpmFiles
    /\ LoadError(yamlFile) = "ok"
    /\ _RULES' = _RULES \o _load_yaml_rules(yamlFile)
    /\ stoppLoaded' = TRUE
    /\ UNCHANGED <<bdpmFiles, yamlFile, demo, meds, stops, starts, outcome, op>>
    /\ UNCHANGED <<varsRules, varsBurden, varsNorm, varsPipe, varsAux>>

\* The import raises at line 34 (the assertions of _BDPMRepository.__init__
\* or its parsing) or at line 130 (_load_yaml_rules): the module is not
\* loaded
ImportStoppFails ==
    /\ ~stoppLoaded
    /\ op = "idle"
    /\ ~bdpmFiles \/ LoadError(yamlFile) # "ok"
    /\ op' = "import stopp_start"
    /\ outcome' = IF ~bdpmFiles THEN "AssertionError" ELSE LoadError(yamlFile)
    /\ UNCHANGED <<bdpmFiles, yamlFile, stoppLoaded, _RULES, demo, meds, stops, starts>>
    /\ UNCHANGED <<varsRules, varsBurden, varsNorm, varsPipe, varsAux>>

\* A call evaluate_rules(d, meds_in)
EvaluateRules ==
    /\ stoppLoaded
    /\ op = "idle"
    /\ op' = "evaluate_rules"
    /\ \E d \in Demographics, meds_in \in StoppLists :
       \E r \in {evaluate_rules(d, meds_in)} :
          /\ demo' = d
          /\ meds' = meds_in
          /\ outcome' = r.outcome
          /\ stops' = IF r.outcome = "ok" THEN r.stops ELSE <<>>
          /\ starts' = IF r.outcome = "ok" THEN r.starts ELSE <<>>
    /\ UNCHANGED <<bdpmFiles, yamlFile, stoppLoaded, _RULES>>
    /\ UNCHANGED <<varsRules, varsBurden, varsNorm, varsPipe, varsAux>>

\* The caller takes the result or the exception
ReturnStopp ==
    /\ op \in {"evaluate_rules", "import stopp_start"}
    /\ op' = "idle"
    /\ demo' = [k \in {} |-> 0]
    /\ meds' = <<>>
    /\ stops' = <<>>
    /\ starts' = <<>>
    /\ outcome' = "ok"
    /\ UNCHANGED <<bdpmFiles, yamlFile, stoppLoaded, _RULES>>
    /\ UNCHANGED <<varsRules, varsBurden, varsNorm, varsPipe, varsAux>>

NextStopp == ImportStopp \/ ImportStoppFails \/ EvaluateRules \/ ReturnStopp

SpecStopp == InitStopp /\ [][NextStopp]_vars

-----------------------------------------------------------------------------
(* The interaction catalog and its detector as a state machine.            *)

\* Rows a thesaurus CSV file can hold
CsvRowPool ==
    { <<"lisinopril", "IBUPROFEN", "C">>,
      <<" ibuprofen ", "Lisinopril", "d">>,
      <<"WARFARIN", "warfarin", "C">>,
      <<"warfarin", "Lisinopril", "D">>,
      <<"WARFARIN", "IBUPROFEN", "B">>,
      <<"WARFARIN", "", "C">>,
      <<"WARFARIN", "IBUPROFEN">> }

\* Lines a thesaurus PDF file can hold
PdfLinePool ==
    { <<" ibuprofen ", "warfarin">>,
      <<"LISINOPRIL">>,
      <<"ACETYLSALICYLIC_ACID", "APIXABAN">> }

CsvFiles(pool, n) == {[kind |-> "csv", rows |-> r] : r \in SeqsUpTo(pool, n)}

PdfFiles(n) == {[kind |-> "pdf", rows |-> r] : r \in SeqsUpTo(PdfLinePool, n)}

\* Resource directories with at most one file of each kind
ResourceDirs ==
    {<<>>}
    \cup {<<c>> : c \in CsvFiles(CsvRowPool, MaxRows)}
    \cup {<<p>> : p \in PdfFiles(MaxRows)}
    \cup {<<c, p>> : c \in CsvFiles(CsvRowPool, MaxRows - 1), p \in PdfFiles(1)}

\* Resource directories of the detector's runs: one CSV file whose rows
\* override a static entry, add a pair, or name one substance twice
DetectRowPool ==
    { <<"lisinopril", "IBUPROFEN", "C">>,
      <<"WARFARIN", "warfarin", "C">>,
      <<"warfarin", "Lisinopril", "D">> }

DetectDirs == {<<>>} \cup {<<c>> : c \in CsvFiles(DetectRowPool, MaxRows)}

\* Names a caller can submit
MedNames == {"LISINOPRIL", "IBUPROFEN", "warfarin", "WARFARIN"}

MedLists == SeqsUpTo(MedNames, MaxMeds)

PairLists == SeqsUpTo(MedNames, MaxPair)

InitRules ==
    /\ IdleStopp
    /\ IdleBurden
    /\ IdleNorm
    /\ IdlePipe
    /\ IdleAux
    /\ op = "idle"
    /\ resources \in DetectDirs
    /\ RulesUnloaded

InitCatalog ==
    /\ IdleStopp
    /\ IdleBurden
    /\ IdleNorm
    /\ IdlePipe
    /\ IdleAux
    /\ op = "idle"
    /\ resources \in ResourceDirs
    /\ RulesUnloaded

\* import backend.bmp_service.rules: lines 52-55 run once
ImportRules ==
    /\ ~rulesLoaded
    /\ \E env \in LoadEnvs :
          /\ thesaurus' = get_interactions(env)
          /\ _INTERACTIONS' = MergeCatalog(StaticInteractions, thesaurus')
    /\ rulesLoaded' = TRUE
    /\ UNCHANGED <<resources, medications, problems, hits, lookups, op>>
    /\ UNCHANGED <<varsStopp, varsBurden, varsNorm, varsPipe, varsAux>>

\* A call detect_interactions(meds_in), meds_in one of lists
DetectInteractions(lists) ==
    /\ rulesLoaded
    /\ op = "idle"
    /\ op' = "detect_interactions"
    /\ \E meds_in \in lists :
       \E r \in {DetectRun(meds_in)} :
          /\ medications' = meds_in
          /\ problems' = r.problems
          /\ hits' = r.hits
          /\ lookups' = r.seen
    /\ UNCHANGED <<resources, rulesLoaded, thesaurus, _INTERACTIONS>>
    /\ UNCHANGED <<varsStopp, varsBurden, varsNorm, varsPipe, varsAux>>

\* The caller takes the result; the next call starts from fresh locals
ReturnRules ==
    /\ op = "detect_interactions"
    /\ op' = "idle"
    /\ medications' = <<>>
    /\ problems' = <<>>
    /\ hits' = <<>>
    /\ lookups' = {}
    /\ UNCHANGED <<resources, rulesLoaded, thesaurus, _INTERACTIONS>>
    /\ UNCHANGED <<varsStopp, varsBurden, varsNorm, varsPipe, varsAux>>

NextRules == ImportRules \/ DetectInteractions(MedLists) \/ ReturnRules

\* The detector over every list, with a thesaurus of a few rows
SpecRules == InitRules /\ [][NextRules]_vars

NextCatalog == ImportRules \/ DetectInteractions(PairLists) \/ ReturnRules

\* The catalog built from every resource directory, then used on short lists
SpecCatalog == InitCatalog /\ [][NextCatalog]_vars

-----------------------------------------------------------------------------
(* Properties of the interaction catalog and detector.                     *)

Returned == op = "detect_interactions"

\* The substances of a medication list, uppercased
Substances(meds_in) == {Upper(meds_in[i]) : i \in 1..Len(meds_in)}

Reports(k) == Cardinality({i \in 1..Len(hits) : hits[i] = k})

PermutationsOf(seq) ==
    {[i \in 1..Len(seq) |-> seq[f[i]]] : f \in Permutations(1..Len(seq))}

IecAinsKey == <<"IBUPROFEN", "LISINOPRIL">>

IecAinsDescription == _INTERACTIONS_RAW[1][2]

\* C1: every catalog key made of two different substances that both occur
\* in the list, in any letter case, is reported exactly once by
\* detect_interactions, however often either substance is repeated; each
\* report is the key's catalog description.
C1_PairReportedExactlyOnce ==
    Returned =>
        /\ Len(problems) = Len(hits)
        /\ \A i \in 1..Len(hits) : problems[i] = _INTERACTIONS[hits[i]]
        /\ \A k \in DOMAIN _INTERACTIONS :
              (k[1] # k[2] /\ {k[1], k[2]} \subseteq Substances(medications))
                  => Reports(k) = 1

\* C1 witness: a catalog pair is present, one of its substances twice and
\* in two spellings
C1_Witness ==
    /\ Returned
    /\ \E k \in DOMAIN _INTERACTIONS :
          /\ k[1] # k[2]
          /\ {k[1], k[2]} \subseteq Substances(medications)
          /\ \E i, j \in 1..Len(medications) :
                /\ i # j
                /\ medications[i] # medications[j]
                /\ Upper(medications[i]) = k[2]
                /\ Upper(medications[j]) = k[2]

\* C6: after the merge, a key held by both the hard-coded table and the
\* thesaurus maps to the thesaurus description, a key held by one source
\* keeps that source's description, and detect_interactions reports from
\* this merged catalog.
C6_ThesaurusWinsOnCollision ==
    rulesLoaded =>
        /\ DOMAIN _INTERACTIONS = (DOMAIN StaticInteractions) \cup (DOMAIN thesaurus)
        /\ \A k \in DOMAIN _INTERACTIONS :
              _INTERACTIONS[k] = IF k \in DOMAIN thesaurus THEN thesaurus[k]
                                 ELSE StaticInteractions[k]
        /\ \A i \in 1..Len(hits) :
              problems[i] = IF hits[i] \in DOMAIN thesaurus THEN thesaurus[hits[i]]
                            ELSE StaticInteractions[hits[i]]

\* C6 witness: a colliding key with two different descriptions was reported
C6_Witness ==
    /\ Returned
    /\ \E i \in 1..Len(hits) :
          /\ hits[i] \in (DOMAIN StaticInteractions) \cap (DOMAIN thesaurus)
          /\ thesaurus[hits[i]] # StaticInteractions[hits[i]]

CanonicalKey(k) ==
    /\ DOMAIN k = 1..2
    /\ Upper(k[1]) = k[1]
    /\ Upper(k[2]) = k[2]
    /\ StrLeq(k[1], k[2])

\* The valid rows of a CSV file that name the two substances of key k
RowsNaming(fp, k) ==
    {i \in 1..Len(fp.rows) :
        /\ Len(fp.rows[i]) >= 3
        /\ GravNorm(fp.rows[i][3]) \in {"C", "D"}
        /\ {Upper(Strip(fp.rows[i][1])), Upper(Strip(fp.rows[i][2]))} = {k[1], k[2]}}

\* C7: every key of the merged catalog and every key a thesaurus loader
\* produced is a pair of uppercase strings (A, B) with A <= B, so no two
\* keys name the same two substances.
C7_KeysCanonical ==
    rulesLoaded =>
        /\ \A k \in (DOMAIN _INTERACTIONS) \cup (DOMAIN thesaurus) : CanonicalKey(k)
        /\ Cardinality({{k[1], k[2]} : k \in DOMAIN _INTERACTIONS})
              = Cardinality(DOMAIN _INTERACTIONS)

\* C7 witness: two rows of one file name the pair of a static entry in
\* different order and case, and the three entries occupy one key
C7_Witness ==
    /\ rulesLoaded
    /\ Len(resources) = 1
    /\ resources[1].kind = "csv"
    /\ Cardinality(RowsNaming(resources[1], IecAinsKey)) = 2
    /\ resources[1].rows[1] # resources[1].rows[2]
    /\ DOMAIN thesaurus = {IecAinsKey}
    /\ Cardinality(DOMAIN _INTERACTIONS) = Len(_INTERACTIONS_RAW)

\* C8 as stated: whatever the thesaurus holds,
\* detect_interactions(["LISINOPRIL", "IBUPROFEN"]) returns the IEC/AINS
\* description alone.
C8_Original ==
    (Returned /\ medications = <<"LISINOPRIL", "IBUPROFEN">>)
        => problems = <<IecAinsDescription>>

\* C8 amended: detect_interactions(["LISINOPRIL", "IBUPROFEN"]) returns
\* exactly one string: the thesaurus description of the pair when the
\* thesaurus holds the pair, the IEC/AINS description otherwise.
C8_OneDescription ==
    (Returned /\ medications = <<"LISINOPRIL", "IBUPROFEN">>)
        => /\ Len(problems) = 1
           /\ problems[1] = IF IecAinsKey \in DOMAIN thesaurus
                            THEN thesaurus[IecAinsKey]
                            ELSE IecAinsDescription

\* C8 witness: the call returned the IEC/AINS description
C8_Witness ==
    /\ Returned
    /\ medications = <<"LISINOPRIL", "IBUPROFEN">>
    /\ IecAinsKey \notin DOMAIN thesaurus
    /\ problems = <<IecAinsDescription>>

\* C9 as stated: for a list that repeats a substance, detect_interactions
\* never reports an interaction for the pair formed by two occurrences of
\* that substance (the claim adds that the pair is not even looked up; the
\* keys looked up are in lookups).
C9_NoSelfPair ==
    Returned => \A i \in 1..Len(hits) : hits[i][1] # hits[i][2]

\* C10: for every permutation P of the list, detect_interactions(P) has the
\* same set of descriptions and the same length as detect_interactions(L).
C10_PermutationInvariant ==
    Returned =>
        \A P \in PermutationsOf(medications) :
            \A result \in {detect_interactions(P)} :
                /\ Range(result) = Range(problems)
                /\ Len(result) = Len(problems)

\* C10 witness: two descriptions were returned and a permutation of the
\* list returns them in another order
C10_Witness ==
    /\ Returned
    /\ Len(problems) >= 2
    /\ \E P \in PermutationsOf(medications) : detect_interactions(P) # problems

-----------------------------------------------------------------------------
(* Properties of the criterion registry and evaluate_rules.                *)

Evaluated == op = "evaluate_rules" /\ outcome = "ok"

EnabledItem(item) == Get(item, "enabled", TRUE)

\* Position in _RULES of the rule built from record i of the file
RegistryIndex(i) ==
    Len(StaticRules)
        + Cardinality({j \in 1..i : EnabledItem(yamlFile.items[j])})

Descriptions(rules) == [i \in 1..Len(rules) |-> rules[i].description]

\* The registry's rules that are true of the call's arguments
Fired == LET Test(r) == Predicate(r, demo, meds) IN SelectSeq(_RULES, Test)

FiredWithPhase(phase) ==
    LET Test(r) == r.phase = phase IN Descriptions(SelectSeq(Fired, Test))

FiredWithoutPhase(phase) ==
    LET Test(r) == r.phase # phase IN Descriptions(SelectSeq(Fired, Test))

\* C2 as stated: the description of every criterion whose predicate is
\* true goes to stops when its phase is STOPP and to starts otherwise,
\* whatever phase the loader gave it.
C2_Original ==
    Evaluated =>
        /\ stops = FiredWithPhase("STOPP")
        /\ starts = FiredWithoutPhase("STOPP")

\* C2 amended: the description of every criterion whose predicate is true
\* goes to starts when its phase is START and to stops otherwise, whatever
\* phase the loader gave it.
C2_StartElseStops ==
    Evaluated =>
        /\ starts = FiredWithPhase("START")
        /\ stops = FiredWithoutPhase("START")

\* C2 witness: a criterion whose phase is neither STOPP nor START fired
C2_Witness ==
    /\ Evaluated
    /\ \E i \in 1..Len(Fired) :
          /\ Fired[i].phase \notin {"STOPP", "START"}
          /\ Fired[i].description \in Range(stops)

\* C3: the predicate of an externally loaded substance-set criterion is
\* true iff age_min <= age <= age_max (0 and 200 when the record omits
\* them) and some medication equals, letter case aside, a substance of the
\* record.
C3_SubstanceSetPredicate ==
    Evaluated =>
        \A i \in 1..Len(yamlFile.items) :
            LET item == yamlFile.items[i] IN
            (EnabledItem(item) /\ "atc" \notin DOMAIN item) =>
                (Predicate(_RULES[RegistryIndex(i)], demo, meds)
                    <=> /\ AgeBound(item, "age_min", 0) <= demo["age"]
                        /\ demo["age"] <= AgeBound(item, "age_max", 200)
                        /\ \E m \in Range(meds), sub \in Range(item["substances"]) :
                              Upper(m) = Upper(sub))

\* C3 witness: a substance-set criterion fired at its upper age bound on a
\* medication spelled in another case than the record's substance
C3_Witness ==
    /\ Evaluated
    /\ \E i \in 1..Len(yamlFile.items) :
          LET item == yamlFile.items[i] IN
          /\ EnabledItem(item)
          /\ "atc" \notin DOMAIN item
          /\ "age_max" \in DOMAIN item
          /\ demo["age"] = AgeBound(item, "age_max", 200)
          /\ Range(meds) \cap Range(item["substances"]) = {}
          /\ Predicate(_RULES[RegistryIndex(i)], demo, meds)
          /\ item["description"] \in Range(stops) \cup Range(starts)

\* C4: evaluate_rules called with demographics that lack the key age
\* raises and returns no (stops, starts); the criteria are not evaluated
\* with a default age.
C4_MissingAgeRaises ==
    (op = "evaluate_rules" /\ "age" \notin DOMAIN demo) =>
        /\ outcome = "AssertionError"
        /\ stops = <<>>
        /\ starts = <<>>

\* C4 witness: the call raised on a list for which a criterion that does
\* not read the age (B2) is true
C4_Witness ==
    /\ op = "evaluate_rules"
    /\ "age" \notin DOMAIN demo
    /\ outcome = "AssertionError"
    /\ _rule_B2(demo, meds)

\* C5: a record with enabled: false is not in the registry, which holds
\* one rule per enabled record, and its description is in neither list
\* returned by evaluate_rules (unless a criterion of the registry carries
\* the same text).
C5_DisabledNeverEvaluated ==
    stoppLoaded =>
        /\ Len(_RULES) = RegistryIndex(Len(yamlFile.items))
        /\ \A i \in 1..Len(yamlFile.items) :
              LET item == yamlFile.items[i] IN
              ~EnabledItem(item) =>
                  /\ \A j \in 1..Len(_RULES) : _RULES[j].id # item["id"]
                  /\ (\A j \in 1..Len(_RULES) :
                          _RULES[j].description # item["description"])
                       => item["description"] \notin Range(stops) \cup Range(starts)

\* C5 witness: a disabled record whose substances are in the list and whose
\* age range holds the age was left out of a returned result
C5_Witness ==
    /\ Evaluated
    /\ \E i \in 1..Len(yamlFile.items) :
          LET item == yamlFile.items[i] IN
          /\ ~EnabledItem(item)
          /\ Predicate(YamlRule(item), demo, meds)
          /\ item["description"] \notin Range(stops) \cup Range(starts)
          /\ Len(stops) + Len(starts) > 0

-----------------------------------------------------------------------------
(* anticholinergic.py: the burden-score table and compute_burden_score.    *)

Max(a, b) == IF a >= b THEN a ELSE b

\* int(field) if field else 0, ValueError giving 0 (lines 57-64)
SubScore(field) ==
    IF field = "" THEN 0
    ELSE IF int(field).raised THEN 0 ELSE int(field).value

\* row[0].startswith(";")
StartsWithSemicolon(s) == s \in {";HEADER", ";comment"}

\* Mutant of StoreScore: the row's score replaces the entry.
StoreScoreRaw(mapping, name, score) ==
    DictUpdate(mapping, [k \in {name} |-> score])

\* mapping[name] = max(mapping.get(name, 0), score)
StoreScore(mapping, name, score) ==
    DictUpdate(mapping, [k \in {name} |-> Max(Get(mapping, name, 0), score)])

\* The rows of one file, lines 53-67.  A row with fewer than four fields
\* raises IndexError at row[1] or row[3]; the handler of line 68 encloses
\* the whole file, so the rows after it are not read, while the entries
\* already stored in mapping stay.
RECURSIVE LoadScoreRows(_, _)
LoadScoreRows(rows, mapping) ==
    IF rows = <<>> THEN mapping
    ELSE LET row == Head(rows) IN
         IF row = <<>> \/ StartsWithSemicolon(row[1])
         THEN LoadScoreRows(Tail(rows), mapping)
         ELSE IF Len(row) < 4 THEN mapping
         ELSE LET name == Upper(Strip(row[1]))
                  score == Max(SubScore(row[2]), SubScore(row[4]))
              IN  LoadScoreRows(Tail(rows),
                                IF score # 0 THEN StoreScore(mapping, name, score)
                                ELSE mapping)

\* The loop over the files, lines 49-71; a file that cannot be opened or
\* decoded is skipped
RECURSIVE LoadScoreFiles(_, _)
LoadScoreFiles(files, mapping) ==
    IF files = <<>> THEN mapping
    ELSE LoadScoreFiles(Tail(files),
                        IF Head(files).readable
                        THEN LoadScoreRows(Head(files).rows, mapping)
                        ELSE mapping)

\* _resources_dir().resolve()
ResourcesDir == "resources"

\* _load_scores() on the module state (cache, dir) and the files on disk
_load_scores(cache, dir, files) ==
    IF cache # None /\ dir = Some(ResourcesDir) THEN cache[1]
    ELSE LoadScoreFiles(files, EmptyDict)

\* Mutant of SumScores: the table is searched for the name as written.
RECURSIVE SumNoUpper(_, _)
SumNoUpper(scores, ms) ==
    IF ms = <<>> THEN 0
    ELSE Get(scores, Head(ms), 0) + SumNoUpper(scores, Tail(ms))

\* sum(scores.get(m.upper(), 0) for m in meds)
RECURSIVE SumScores(_, _)
SumScores(scores, ms) ==
    IF ms = <<>> THEN 0
    ELSE Get(scores, Upper(Head(ms)), 0) + SumScores(scores, Tail(ms))

\* compute_burden_score(meds) once the table is at hand
compute_burden_score(scores, ms) == SumScores(scores, ms)

-----------------------------------------------------------------------------
(* The burden scorer as a state machine.                                   *)

\* Rows a score file can hold
ScoreRowPool ==
    { <<"ASPIRIN", "2", "", "">>,
      <<" aspirin ", "1", "", "5">>,
      <<"IBUPROFEN", "", " ", "4">>,
      <<"NEG", "-2", "", "-1">>,
      <<"ASPIRIN", "-1", "bad", "-3">>,
      <<"ASPIRIN", "9">>,
      <<>>,
      <<";HEADER", "X", "Y", "Z">> }

ScoreFiles(n) == {[readable |-> TRUE, rows |-> r] : r \in SeqsUpTo(ScoreRowPool, n)}

UnreadableFile == [readable |-> FALSE, rows |-> <<>>]

\* Resource directories with at most two score files
ScoreDirs ==
    {<<>>}
    \cup {<<f>> : f \in ScoreFiles(MaxScoreRows)}
    \cup {<<f, g>> : f \in ScoreFiles(MaxScoreRows - 1) \cup {UnreadableFile},
                     g \in ScoreFiles(1)}

BurdenNames == {"aspirin", "ASPIRIN", "IBUPROFEN", "NEG"}

BurdenLists == SeqsUpTo(BurdenNames, MaxPair)

InitBurden ==
    /\ IdleRules
    /\ IdleStopp
    /\ IdleNorm
    /\ IdlePipe
    /\ IdleAux
    /\ op = "idle"
    /\ scoreFiles \in ScoreDirs
    /\ _SCORES_CACHE = None
    /\ _CACHE_DIR = None
    /\ burdenMeds = <<>>
    /\ burden = 0

\* A call compute_burden_score(meds_in); the first one builds the table
ComputeBurdenScore ==
    /\ op = "idle"
    /\ op' = "compute_burden_score"
    /\ \E meds_in \in BurdenLists :
       \E scores \in {_load_scores(_SCORES_CACHE, _CACHE_DIR, scoreFiles)} :
          /\ _SCORES_CACHE' = Some(scores)
          /\ _CACHE_DIR' = Some(ResourcesDir)
          /\ burdenMeds' = meds_in
          /\ burden' = compute_burden_score(scores, meds_in)
    /\ UNCHANGED scoreFiles
    /\ UNCHANGED <<varsRules, varsStopp, varsNorm, varsPipe, varsAux>>

\* Mutant of ReturnBurden: handing the score over also drops the table.
ReturnBurdenClearing ==
    /\ op = "compute_burden_score"
    /\ op' = "idle"
    /\ burdenMeds' = <<>>
    /\ burden' = 0
    /\ _SCORES_CACHE' = None
    /\ _CACHE_DIR' = None
    /\ UNCHANGED scoreFiles
    /\ UNCHANGED <<varsRules, varsStopp, varsNorm, varsPipe, varsAux>>

\* The caller takes the score
ReturnBurden ==
    /\ op = "compute_burden_score"
    /\ op' = "idle"
    /\ burdenMeds' = <<>>
    /\ burden' = 0
    /\ UNCHANGED <<scoreFiles, _SCORES_CACHE, _CACHE_DIR>>
    /\ UNCHANGED <<varsRules, varsStopp, varsNorm, varsPipe, varsAux>>

\* _load_scores.cache_clear()
_cache_clear ==
    /\ op = "idle"
    /\ _SCORES_CACHE # None
    /\ _SCORES_CACHE' = None
    /\ _CACHE_DIR' = None
    /\ UNCHANGED <<scoreFiles, burdenMeds, burden, op>>
    /\ UNCHANGED <<varsRules, varsStopp, varsNorm, varsPipe, varsAux>>

NextBurden == ComputeBurdenScore \/ ReturnBurden \/ _cache_clear

SpecBurden == InitBurden /\ [][NextBurden]_vars

-----------------------------------------------------------------------------
(* Properties of the burden scorer.                                        *)

BurdenReturned == op = "compute_burden_score"

ScoresLoaded == _SCORES_CACHE # None

RECURSIVE SetSum(_, _)
SetSum(S, f) ==
    IF S = {} THEN 0
    ELSE LET x == CHOOSE y \in S : TRUE IN f[x] + SetSum(S \ {x}, f)

\* Occurrences of substance k in a list, letter case ignored
Occurrences(ms, k) == Cardinality({i \in 1..Len(ms) : Upper(ms[i]) = k})

\* C11: the score is the sum over the table's substances of the entry times
\* the number of elements naming it (absent elements count 0, repeated
\* ones repeatedly); the score of the list is the sum of the scores of any
\* two parts it is cut into, and uppercasing the elements changes nothing.
C11_AdditiveCaseInsensitive ==
    BurdenReturned =>
        LET T == _SCORES_CACHE[1]
            n == Len(burdenMeds)
        IN  /\ burden = SetSum(DOMAIN T,
                               [k \in DOMAIN T |-> T[k] * Occurrences(burdenMeds, k)])
            /\ \A i \in 0..n :
                  compute_burden_score(T, SubSeq(burdenMeds, 1, i))
                    + compute_burden_score(T, SubSeq(burdenMeds, i + 1, n)) = burden
            /\ compute_burden_score(T, [i \in 1..n |-> Upper(burdenMeds[i])]) = burden

\* C11 witness: a list naming one scored substance in two letter cases
C11_Witness ==
    /\ BurdenReturned
    /\ burden > 0
    /\ \E i, j \in 1..Len(burdenMeds) :
          /\ burdenMeds[i] # burdenMeds[j]
          /\ Upper(burdenMeds[i]) = Upper(burdenMeds[j])
          /\ Upper(burdenMeds[i]) \in DOMAIN _SCORES_CACHE[1]

\* The rows of the readable files with at least four fields that are
\* neither blank nor comments, as <<file, row>> positions
ScoreRows ==
    {p \in {<<f, r>> : f \in 1..Len(scoreFiles), r \in 1..MaxScoreRows + 1} :
        /\ scoreFiles[p[1]].readable
        /\ p[2] <= Len(scoreFiles[p[1]].rows)
        /\ LET row == scoreFiles[p[1]].rows[p[2]]
           IN  /\ Len(row) >= 4
               /\ ~StartsWithSemicolon(row[1])}

RowAt(p) == scoreFiles[p[1]].rows[p[2]]

RowName(p) == Upper(Strip(RowAt(p)[1]))

RowScore(p) == Max(SubScore(RowAt(p)[2]), SubScore(RowAt(p)[4]))

\* The largest row score among the rows naming n
MaxRowScore(n) ==
    CHOOSE m \in {RowScore(p) : p \in {q \in ScoreRows : RowName(q) = n}} :
        \A p \in {q \in ScoreRows : RowName(q) = n} : RowScore(p) <= m

\* C12: each substance named by a row has as entry the maximum of the row
\* scores of all rows naming it, and no entry when that maximum is 0; the
\* table has no other entry.
C12_MaxOverRows ==
    ScoresLoaded =>
        LET T == _SCORES_CACHE[1]
            names == {RowName(p) : p \in ScoreRows}
        IN  /\ DOMAIN T \subseteq names
            /\ \A n \in names :
                  IF MaxRowScore(n) = 0 THEN n \notin DOMAIN T
                  ELSE n \in DOMAIN T /\ T[n] = MaxRowScore(n)

\* C13: every row with four fields and a positive score, before or after
\* a row with fewer fields, in any file, is counted in the table.
C13_OnlyMalformedRowSkipped ==
    ScoresLoaded =>
        \A p \in ScoreRows :
            RowScore(p) > 0 =>
                /\ RowName(p) \in DOMAIN _SCORES_CACHE[1]
                /\ _SCORES_CACHE[1][RowName(p)] >= RowScore(p)

\* C14: every entry of the loaded table and every returned score is a
\* non-negative integer.
C14_NonNegative ==
    /\ ScoresLoaded => \A k \in DOMAIN _SCORES_CACHE[1] : _SCORES_CACHE[1][k] \in Nat
    /\ BurdenReturned => burden \in Nat

\* C14 witness: a row with two negative sub-scores was loaded and its
\* substance scored
C14_Witness ==
    /\ BurdenReturned
    /\ \E p \in ScoreRows : RowScore(p) < 0 /\ RowName(p) \in DOMAIN _SCORES_CACHE[1]
                            /\ RowName(p) \in Substances(burdenMeds)

-----------------------------------------------------------------------------
(* drug_repository.py: the BDPM repository; normalization.py: normalize.   *)

Raise(exc) == [raised |-> TRUE, value |-> exc]

Return(v) == [raised |-> FALSE, value |-> v]

\* The data rows of the specialities extract, lines 98-104
RECURSIVE SpecRows(_, _)
SpecRows(rows, libelle_to_cis) ==
    IF rows = <<>> THEN libelle_to_cis
    ELSE LET row == Head(rows) IN
         IF row = <<>> THEN SpecRows(Tail(rows), libelle_to_cis)
         ELSE LET cis == Strip(row[1])
                  lib == IF Len(row) > 1 THEN Upper(Strip(row[2])) ELSE ""
              IN  SpecRows(Tail(rows),
                           IF cis # "" /\ lib # ""
                           THEN DictUpdate(libelle_to_cis, [k \in {lib} |-> cis])
                           ELSE libelle_to_cis)

\* _parse_spec: next(reader) raises StopIteration on a file without lines,
\* header[0] raises IndexError on a blank first line
_parse_spec(file) ==
    IF file.rows = <<>> THEN Raise("StopIteration")
    ELSE IF Head(file.rows) = <<>> THEN Raise("IndexError")
    ELSE LET has_header == Upper(Strip(Head(file.rows)[1])) \in {"CIS", "CODECIS"}
         IN  Return(SpecRows(IF has_header THEN Tail(file.rows) ELSE file.rows,
                             EmptyDict))

\* The data rows of the compositions extract, lines 137-143
RECURSIVE CompoRows(_, _)
CompoRows(rows, cis_to_substances) ==
    IF rows = <<>> THEN cis_to_substances
    ELSE LET row == Head(rows) IN
         IF Len(row) < 4 THEN CompoRows(Tail(rows), cis_to_substances)
         ELSE LET cis == Strip(row[1])
                  substance == Upper(Strip(row[4]))
              IN  CompoRows(Tail(rows),
                            IF cis # "" /\ substance # ""
                            THEN DictUpdate(cis_to_substances,
                                     [k \in {cis} |->
                                         Append(Get(cis_to_substances, cis, <<>>),
                                                substance)])
                            ELSE cis_to_substances)

\* _parse_compo
_parse_compo(file) ==
    IF file.rows = <<>> THEN Raise("StopIteration")
    ELSE LET header == Head(file.rows)
             has_header == header # <<>> /\ Upper(Strip(header[1])) = "CIS"
         IN  Return(CompoRows(IF has_header THEN Tail(file.rows) ELSE file.rows,
                              EmptyDict))

\* _BDPMRepository(spec_path, compo_path)
_BDPMRepository(spec, compo) ==
    IF ~spec.exists \/ ~compo.exists THEN Raise("AssertionError")
    ELSE IF _parse_spec(spec).raised THEN _parse_spec(spec)
    ELSE IF _parse_compo(compo).raised THEN _parse_compo(compo)
    ELSE Return([_libelle_to_cis |-> _parse_spec(spec).value,
                 _cis_to_substances |-> _parse_compo(compo).value])

\* get_repository() under lru_cache(maxsize=1): the cached instance, or a
\* new one; an exception is not cached
get_repository(cached, spec, compo) ==
    IF cached # None THEN Return(cached[1]) ELSE _BDPMRepository(spec, compo)

\* _BDPMRepository.find_dci(name): the substance, or None
find_dci(repository, name_in) ==
    LET lib == Upper(Strip(name_in)) IN
    IF lib \notin DOMAIN repository._libelle_to_cis THEN None
    ELSE LET subs == Get(repository._cis_to_substances,
                         repository._libelle_to_cis[lib], <<>>)
         IN  IF subs # <<>> THEN Some(subs[1]) ELSE None

_NORMALIZATION_MAP ==
    [k \in {"IBUPROFENE", "ADVIL", "NUROFEN", "ASPIRINE", "ASPIRIN", "KARDEGIC",
            "ZESTRIL", "ELIQUIS", "IEC"} |->
        CASE k \in {"IBUPROFENE", "ADVIL", "NUROFEN"}   -> "IBUPROFEN"
          [] k \in {"ASPIRINE", "ASPIRIN", "KARDEGIC"}  -> "ACETYLSALICYLIC_ACID"
          [] k = "ZESTRIL"                              -> "LISINOPRIL"
          [] k = "ELIQUIS"                              -> "APIXABAN"
          [] k = "IEC"                                  -> "IEC"]

\* Mutant of Resolve: the static table is consulted before the repository.
ResolveStaticFirst(repository, key) ==
    IF key \in DOMAIN _NORMALIZATION_MAP THEN _NORMALIZATION_MAP[key]
    ELSE IF find_dci(repository, key) # None THEN find_dci(repository, key)[1]
    ELSE key

\* normalize, lines 40-43
Resolve(repository, key) ==
    IF find_dci(repository, key) # None THEN find_dci(repository, key)[1]
    ELSE Get(_NORMALIZATION_MAP, key, key)

\* normalize(name) with the repository get_repository() gave or raised
normalize(got, name_in) ==
    IF got.raised THEN got
    ELSE Return(Resolve(got.value, Upper(Strip(name_in))))

-----------------------------------------------------------------------------
(* The normalizer as a state machine.                                      *)

SpecRowPool ==
    { <<"cis", "Libelle">>,
      <<"100", "Doliprane">>,
      <<"200", " Advil ">>,
      <<"300", "zestril">>,
      <<"400">>,
      <<>> }

CompoRowPool ==
    { <<"cis", "x", "x", "Substance">>,
      <<"100", "x", "x", "paracetamol">>,
      <<"200", "x", "x", "Ibuprofene">>,
      <<"200", "x", "x", "IBUPROFEN">>,
      <<"100", "x">> }

BdpmFiles(pool) ==
    {NoFile} \cup {[exists |-> TRUE, rows |-> r] : r \in SeqsUpTo(pool, MaxBdpmRows)}

NormNames == {"advil", " Advil ", "Doliprane", "zestril", "IBUPROFEN", "KCl"}

InitNorm ==
    /\ IdleRules
    /\ IdleStopp
    /\ IdleBurden
    /\ IdlePipe
    /\ IdleAux
    /\ op = "idle"
    /\ specFile \in BdpmFiles(SpecRowPool)
    /\ compoFile \in BdpmFiles(CompoRowPool)
    /\ repo = None
    /\ normName = ""
    /\ normResult = NoResult

\* A call normalize(name_in); the first successful one builds the repository
Normalize ==
    /\ op = "idle"
    /\ op' = "normalize"
    /\ \E name_in \in NormNames :
       \E got \in {get_repository(repo, specFile, compoFile)} :
          /\ repo' = IF got.raised THEN repo ELSE Some(got.value)
          /\ normName' = name_in
          /\ normResult' = normalize(got, name_in)
    /\ UNCHANGED <<specFile, compoFile>>
    /\ UNCHANGED <<varsRules, varsStopp, varsBurden, varsPipe, varsAux>>

\* The caller takes the substance or the exception
ReturnNorm ==
    /\ op = "normalize"
    /\ op' = "idle"
    /\ normName' = ""
    /\ normResult' = NoResult
    /\ UNCHANGED <<specFile, compoFile, repo>>
    /\ UNCHANGED <<varsRules, varsStopp, varsBurden, varsPipe, varsAux>>

NextNorm == Normalize \/ ReturnNorm

SpecNorm == InitNorm /\ [][NextNorm]_vars

-----------------------------------------------------------------------------
(* Properties of the normalizer.                                           *)

Normalized == op = "normalize"

\* C19: normalize returns a substance for every name and every state of
\* the reference files, and an unresolved name comes back uppercased.
C19_NormalizeTotal ==
    Normalized =>
        /\ ~normResult.raised
        /\ normResult.value # ""

NormKey == Upper(Strip(normName))

\* The repository knows a key when a speciality row carries it as label
\* and a composition row carries that row's code
RepoKnows(key) ==
    /\ key \in DOMAIN repo[1]._libelle_to_cis
    /\ repo[1]._libelle_to_cis[key] \in DOMAIN repo[1]._cis_to_substances

-----------------------------------------------------------------------------
(* bdpm_loader.py: the code-to-substance mapping and normalize_drug.       *)

_FALLBACK ==
    [k \in {"3400932716455", "PARACETAMOL"} |-> "PARACETAMOL"]

\* _parse_csv: the rows are the dicts csv.DictReader yields
RECURSIVE _parse_csv(_, _)
_parse_csv(rows, mapping) ==
    IF rows = <<>> THEN mapping
    ELSE LET row == Head(rows)
             cip == IF Get(row, "CIP7", "") # "" THEN row["CIP7"]
                    ELSE Get(row, "CIP13", "")
             dci == Get(row, "DCI", "")
         IN  _parse_csv(Tail(rows),
                        IF cip # "" /\ dci # ""
                        THEN DictUpdate(mapping, [k \in {cip} |-> Upper(dci)])
                        ELSE mapping)

\* The first loop of _parse_sqlite: code and substance of each composition
RECURSIVE CompositionRows(_, _)
CompositionRows(rows, mapping) ==
    IF rows = <<>> THEN mapping
    ELSE CompositionRows(Tail(rows),
             DictUpdate(mapping,
                 [k \in {Head(rows)[1], Head(rows)[2]} |-> Head(rows)[2]]))

\* The second loop: the rows of cips JOIN compositions USING(cis)
RECURSIVE CipRows(_, _, _)
CipRows(cips, compositions, mapping) ==
    IF cips = <<>> THEN mapping
    ELSE LET joined == {i \in 1..Len(compositions) :
                            compositions[i][1] = Head(cips)[2]}
         IN  CipRows(Tail(cips), compositions,
                     IF joined = {} THEN mapping
                     ELSE DictUpdate(mapping,
                              [k \in {Head(cips)[1]} |->
                                  compositions[CHOOSE i \in joined : TRUE][2]]))

\* _parse_sqlite: an empty result fails the assertion of line 60
_parse_sqlite(db) ==
    LET mapping == CipRows(db.cips, db.rows, CompositionRows(db.rows, EmptyDict))
    IN  IF DOMAIN mapping = {} THEN Raise("AssertionError") ELSE Return(mapping)

\* get_mapping() under lru_cache(maxsize=1): SQLite, else CSV, else fallback
get_mapping(cached, data) ==
    IF cached # None THEN Return(cached[1])
    ELSE IF data.db.exists THEN _parse_sqlite(data.db)
    ELSE IF data.csv.exists THEN Return(_parse_csv(data.csv.rows, EmptyDict))
    ELSE Return(_FALLBACK)

\* normalize_drug(token)
normalize_drug(mapping, token) == Get(mapping, Upper(token), Upper(token))

-----------------------------------------------------------------------------
(* main.py: run_bmp.                                                       *)

BurdenWarning(b) ==
    "Charge anticholinergique elevee : score " \o ToString(b) \o " (CIA/ACB >=3)"

InteractionNote ==
    "Consulter les recommandations cliniques pour les interactions identifiees."

\* What generate_summary returns when it returns
Narrative == "narrative"

\* Mutant of WithBurden: the warning needs a score above 3.
WithBurdenAbove(found, b) ==
    IF b > 3 THEN Append(found, BurdenWarning(b)) ELSE found

\* Lines 218-222
WithBurden(found, b) ==
    IF b >= 3 THEN Append(found, BurdenWarning(b)) ELSE found

\* Mutant of Recommend: the narrative is appended after the note.
RecommendNarrativeLast(summary, start_descriptions, interactions) ==
    (IF interactions # <<>> THEN Append(start_descriptions, InteractionNote)
     ELSE start_descriptions) \o <<summary>>

\* Lines 225-230 and 239: starts.copy(), the note, insert(0, summary)
Recommend(summary, start_descriptions, interactions) ==
    <<summary>> \o (IF interactions # <<>>
                    THEN Append(start_descriptions, InteractionNote)
                    ELSE start_descriptions)

\* run_bmp from line 201 on, with the mapping get_mapping() returned and the
\* score table _load_scores() returned
run_bmp(req, mapping, scores) ==
    LET meds_norm == [i \in 1..Len(req.names) |-> normalize_drug(mapping, req.names[i])]
        demographics == [age |-> req.age, sex |-> req.sex]
        interactions == detect_interactions(meds_norm)
        rules == evaluate_rules(demographics, meds_norm)
        b == compute_burden_score(scores, meds_norm)
        found == WithBurden(interactions \o rules.stops, b)
        call == [demographics |-> demographics, medications |-> meds_norm,
                 problems |-> found]
    IN  IF rules.outcome # "ok"
        THEN [NoResponse EXCEPT !.status = "HTTPException 500",
                                !.meds_norm = meds_norm,
                                !.interactions = interactions]
        ELSE IF req.summarizer = "raises"
        THEN [status |-> "Exception", meds_norm |-> meds_norm,
              interactions |-> interactions, stops |-> rules.stops,
              starts |-> rules.starts, burden |-> b, calls |-> <<call>>,
              problems |-> <<>>, recommendations |-> <<>>]
        ELSE [status |-> "ok", meds_norm |-> meds_norm,
              interactions |-> interactions, stops |-> rules.stops,
              starts |-> rules.starts, burden |-> b, calls |-> <<call>>,
              problems |-> found,
              recommendations |-> Recommend(Narrative, rules.starts, interactions)]

-----------------------------------------------------------------------------
(* The pipeline as a state machine.                                        *)

\* Thesaurus directories of the pipeline's runs
PipeDirs ==
    { <<>>,
      <<[kind |-> "csv", rows |-> <<<<"lisinopril", "IBUPROFEN", "C">>>>]>> }

\* Criterion files of the pipeline's runs
PipeYamlFiles ==
    { [exists |-> FALSE, items |-> <<>>],
      [exists |-> TRUE,
       items |-> << [id |-> "P1", description |-> "desc p1",
                     substances |-> <<"ibuprofen">>],
                    [id |-> "Z1", description |-> "desc z1",
                     substances |-> <<"Lisinopril">>, age_min |-> "65",
                     age_max |-> "100", enabled |-> TRUE, phase |-> "START"] >>] }

\* Score directories: IBUPROFEN scores 2, LISINOPRIL 1, PARACETAMOL 3
PipeScoreDirs ==
    { <<>>,
      <<[readable |-> TRUE,
         rows |-> << <<"IBUPROFEN", "1", "", "2">>,
                     <<"lisinopril", "1", "", "">>,
                     <<"PARACETAMOL", "", "", "3">> >>]>> }

\* Mapping sources: none, a database, an empty database, a CSV extract
PipeLoaderData ==
    { NoLoaderData,
      [db |-> [exists |-> TRUE, rows |-> <<<<"600", "IBUPROFEN">>>>,
               cips |-> <<<<"3400932716455", "600">>>>],
       csv |-> NoFile],
      [db |-> [exists |-> TRUE, rows |-> <<>>, cips |-> <<>>], csv |-> NoFile],
      [db |-> NoFile,
       csv |-> [exists |-> TRUE,
                rows |-> <<[CIP13 |-> "3400932716455", DCI |-> "Paracetamol"],
                           [CIP7 |-> "", DCI |-> "Ibuprofen"]>>]] }

PipeNames == {"advil", "Lisinopril", "IBUPROFEN", "3400932716455"}

Requests ==
    [names : SeqsUpTo(PipeNames, MaxPair) \ {<<>>},
     age : {64, 70},
     sex : {"F"},
     summarizer : {"returns", "raises"}]

HeaderOnlySpec == [exists |-> TRUE, rows |-> <<<<"cis", "Libelle">>>>]

HeaderOnlyCompo == [exists |-> TRUE, rows |-> <<<<"cis", "x", "x", "Substance">>>>]

InitPipe ==
    /\ IdleAux
    /\ op = "idle"
    /\ resources \in PipeDirs
    /\ RulesUnloaded
    /\ bdpmFiles = TRUE
    /\ yamlFile \in PipeYamlFiles
    /\ stoppLoaded = FALSE
    /\ _RULES = StaticRules
    /\ demo = [k \in {} |-> 0]
    /\ meds = <<>>
    /\ stops = <<>>
    /\ starts = <<>>
    /\ outcome = "ok"
    /\ scoreFiles \in PipeScoreDirs
    /\ _SCORES_CACHE = None
    /\ _CACHE_DIR = None
    /\ burdenMeds = <<>>
    /\ burden = 0
    /\ specFile = HeaderOnlySpec
    /\ compoFile = HeaderOnlyCompo
    /\ repo = None
    /\ normName = ""
    /\ normResult = NoResult
    /\ loaderData \in PipeLoaderData
    /\ mappingCache = None
    /\ request = NoRequest
    /\ response = NoResponse

\* A request POST /bmp/run once main.py, hence rules.py and stopp_start.py,
\* are imported.  get_mapping() raising at line 202 leaves run_bmp before
\* anything else is computed.
RunBmp ==
    /\ rulesLoaded
    /\ stoppLoaded
    /\ op = "idle"
    /\ op' = "run_bmp"
    /\ \E req \in Requests :
       \E got \in {get_mapping(mappingCache, loaderData)} :
          /\ request' = req
          /\ IF got.raised
             THEN /\ response' = [NoResponse EXCEPT !.status = got.value]
                  /\ UNCHANGED <<mappingCache, _SCORES_CACHE, _CACHE_DIR>>
             ELSE \E scores \in {_load_scores(_SCORES_CACHE, _CACHE_DIR, scoreFiles)} :
                  /\ response' = run_bmp(req, got.value, scores)
                  /\ mappingCache' = Some(got.value)
                  /\ _SCORES_CACHE' = Some(scores)
                  /\ _CACHE_DIR' = Some(ResourcesDir)
    /\ UNCHANGED <<scoreFiles, burdenMeds, burden, loaderData>>
    /\ UNCHANGED <<varsRules, varsStopp, varsNorm, varsAux>>

\* The response, or the error, is sent
ReturnPipe ==
    /\ op = "run_bmp"
    /\ op' = "idle"
    /\ request' = NoRequest
    /\ response' = NoResponse
    /\ UNCHANGED <<loaderData, mappingCache>>
    /\ UNCHANGED <<varsRules, varsStopp, varsBurden, varsNorm, varsAux>>

NextPipe == ImportRules \/ ImportStopp \/ RunBmp \/ ReturnPipe

SpecPipe == InitPipe /\ [][NextPipe]_vars

-----------------------------------------------------------------------------
(* Properties of the pipeline.                                             *)

Ran == op = "run_bmp"

Answered == Ran /\ response.status = "ok"

\* The lists the rule engines return for the normalized medications
RunInteractions == detect_interactions(response.meds_norm)

RunRules ==
    evaluate_rules([age |-> request.age, sex |-> request.sex], response.meds_norm)

RunBurden == compute_burden_score(_SCORES_CACHE[1], response.meds_norm)

\* C15: the returned problems are the interaction descriptions, then the
\* stops of evaluate_rules, then one burden warning exactly when the score
\* is at least 3.
C15_ProblemsOrder ==
    Answered =>
        LET n == Len(RunInteractions) + Len(RunRules.stops) IN
        /\ SubSeq(response.problems, 1, Len(RunInteractions)) = RunInteractions
        /\ SubSeq(response.problems, Len(RunInteractions) + 1, n) = RunRules.stops
        /\ RunBurden >= 3 =>
              /\ Len(response.problems) = n + 1
              /\ response.problems[n + 1] = BurdenWarning(RunBurden)
        /\ RunBurden < 3 => Len(response.problems) = n

\* C15 witness: an interaction, a stop and a warning at score 3 together
C15_Witness ==
    /\ Answered
    /\ RunInteractions # <<>>
    /\ RunRules.stops # <<>>
    /\ RunBurden = 3
    /\ Len(response.problems) = Len(RunInteractions) + Len(RunRules.stops) + 1

\* C16: the returned recommendations are the narrative, then the starts
\* of evaluate_rules, then the note exactly when an interaction was
\* found; generate_summary was called once, with the returned problems.
C16_RecommendationsOrder ==
    Answered =>
        LET n == 1 + Len(RunRules.starts) IN
        /\ response.recommendations[1] = Narrative
        /\ SubSeq(response.recommendations, 2, n) = RunRules.starts
        /\ RunInteractions # <<>> =>
              /\ Len(response.recommendations) = n + 1
              /\ response.recommendations[n + 1] = InteractionNote
        /\ RunInteractions = <<>> => Len(response.recommendations) = n
        /\ Len(response.calls) = 1
        /\ response.calls[1].problems = response.problems
        /\ response.calls[1].medications = response.meds_norm

\* C16 witness: a start, the note and a burden warning in one run
C16_Witness ==
    /\ Answered
    /\ RunRules.starts # <<>>
    /\ RunInteractions # <<>>
    /\ RunBurden >= 3
    /\ Len(response.recommendations) = Len(RunRules.starts) + 2

\* C17: a run whose summarizer raises still answers, with the problems
\* and a recommendations list headed by a fallback string.
C17_SummarizerFailureTolerated ==
    (Ran /\ request.summarizer = "raises" /\ response.calls # <<>>) =>
        /\ response.status = "ok"
        /\ response.recommendations # <<>>

\* The section 4.1 normalizer on the reference data of the state
Normalizer41(name_in) ==
    normalize(get_repository(repo, specFile, compoFile), name_in)

\* C18: the medications the run evaluated are the submitted names each
\* mapped by normalize, in order and with repeats.
C18_PipelineUsesNormalizer ==
    (Ran /\ response.calls # <<>>) =>
        /\ Len(response.meds_norm) = Len(request.names)
        /\ \A i \in 1..Len(request.names) :
              /\ ~Normalizer41(request.names[i]).raised
              /\ response.meds_norm[i] = Normalizer41(request.names[i]).value

\* C21: normalizing the value normalize returned gives that value again.
C21_Idempotent ==
    (Normalized /\ ~normResult.raised) =>
        normalize(Return(repo[1]), normResult.value) = normResult

-----------------------------------------------------------------------------
(* First access to the lazily built tables by concurrent request threads.  *)
(* _load_scores tests and assigns two module globals without a lock;       *)
(* functools.lru_cache looks the key up, calls the wrapped function with   *)
(* no lock held, and stores the result only if the key is still absent.    *)
(* A table object is identified by the rank of the build that made it.     *)

\* anticholinergic.py line 43 / the lru_cache lookup: a hit needs the cached
\* object and, for the scores, the matching directory
CacheHit(tab) ==
    /\ tableCache[tab] # None
    /\ (tab = "scores" => cacheDirSet)

\* A thread calls compute_burden_score, get_interactions or get_mapping
FirstAccess(t) ==
    /\ threads[t].pc = "idle"
    /\ \E tab \in Tables :
          threads' = [threads EXCEPT ![t] = [@ EXCEPT !.pc = "lookup", !.table = tab]]
    /\ UNCHANGED <<tableCache, cacheDirSet, builds>>
    /\ UNCHANGED <<varsRules, varsStopp, varsBurden, varsNorm, varsPipe, varsRenal, summaryCall, loadEnv, op>>

\* The cache test: a hit returns the cached object, a miss enters the builder
Lookup(t) ==
    /\ threads[t].pc = "lookup"
    /\ threads' = [threads EXCEPT ![t] =
                      IF CacheHit(threads[t].table)
                      THEN [@ EXCEPT !.pc = "returned",
                                     !.got = tableCache[threads[t].table][1]]
                      ELSE [@ EXCEPT !.pc = "build"]]
    /\ UNCHANGED <<tableCache, cacheDirSet, builds>>
    /\ UNCHANGED <<varsRules, varsStopp, varsBurden, varsNorm, varsPipe, varsRenal, summaryCall, loadEnv, op>>

\* The table-building code: anticholinergic.py lines 46-71, the body of
\* get_interactions, the body of get_mapping
Build(t) ==
    /\ threads[t].pc = "build"
    /\ builds' = [builds EXCEPT ![threads[t].table] = @ + 1]
    /\ threads' = [threads EXCEPT ![t] =
                      [@ EXCEPT !.pc = "store",
                                !.local = builds[threads[t].table] + 1]]
    /\ UNCHANGED <<tableCache, cacheDirSet>>
    /\ UNCHANGED <<varsRules, varsStopp, varsBurden, varsNorm, varsPipe, varsRenal, summaryCall, loadEnv, op>>

\* anticholinergic.py line 73 assigns _SCORES_CACHE whatever it holds;
\* lru_cache keeps the entry another thread stored meanwhile and returns
\* this thread's own result
Store(t) ==
    /\ threads[t].pc = "store"
    /\ IF threads[t].table = "scores"
       THEN /\ tableCache' = [tableCache EXCEPT !["scores"] = Some(threads[t].local)]
            /\ threads' = [threads EXCEPT ![t] = [@ EXCEPT !.pc = "store_dir"]]
       ELSE /\ tableCache' = [tableCache EXCEPT ![threads[t].table] =
                                 IF @ = None THEN Some(threads[t].local) ELSE @]
            /\ threads' = [threads EXCEPT ![t] =
                              [@ EXCEPT !.pc = "returned", !.got = threads[t].local]]
    /\ UNCHANGED <<cacheDirSet, builds>>
    /\ UNCHANGED <<varsRules, varsStopp, varsBurden, varsNorm, varsPipe, varsRenal, summaryCall, loadEnv, op>>

\* anticholinergic.py lines 74-75: _CACHE_DIR is assigned, mapping returned
StoreDir(t) ==
    /\ threads[t].pc = "store_dir"
    /\ cacheDirSet' = TRUE
    /\ threads' = [threads EXCEPT ![t] = [@ EXCEPT !.pc = "returned", !.got = threads[t].local]]
    /\ UNCHANGED <<tableCache, builds>>
    /\ UNCHANGED <<varsRules, varsStopp, varsBurden, varsNorm, varsPipe, varsRenal, summaryCall, loadEnv, op>>

InitThreads ==
    /\ IdleRules
    /\ IdleStopp
    /\ IdleBurden
    /\ IdleNorm
    /\ IdlePipe
    /\ IdleRenal
    /\ summaryCall = NoSummary
    /\ loadEnv = None
    /\ op = "idle"
    /\ tableCache = [tab \in Tables |-> None]
    /\ cacheDirSet = FALSE
    /\ builds = [tab \in Tables |-> 0]
    /\ threads = [t \in Threads |-> NoThread]

NextThreads ==
    \E t \in Threads :
        FirstAccess(t) \/ Lookup(t) \/ Build(t) \/ Store(t) \/ StoreDir(t)

\* Request threads, each making its first access to one of the tables
SpecThreads == InitThreads /\ [][NextThreads]_vars

\* C22: under concurrent first access the building code of each table runs
\* at most once and every thread that got the table got the same object.
C22_BuiltOnce ==
    \A tab \in Tables :
        /\ builds[tab] <= 1
        /\ \A t1, t2 \in Threads :
              (/\ threads[t1].pc = "returned" /\ threads[t1].table = tab
               /\ threads[t2].pc = "returned" /\ threads[t2].table = tab)
                  => threads[t1].got = threads[t2].got

-----------------------------------------------------------------------------
(* The four operations and the cache-clear hook in one process.            *)

InitFrame ==
    /\ IdleAux
    /\ op = "idle"
    /\ resources \in PipeDirs
    /\ RulesUnloaded
    /\ bdpmFiles = TRUE
    /\ yamlFile \in PipeYamlFiles
    /\ stoppLoaded = FALSE
    /\ _RULES = StaticRules
    /\ demo = [k \in {} |-> 0]
    /\ meds = <<>>
    /\ stops = <<>>
    /\ starts = <<>>
    /\ outcome = "ok"
    /\ scoreFiles \in PipeScoreDirs
    /\ _SCORES_CACHE = None
    /\ _CACHE_DIR = None
    /\ burdenMeds = <<>>
    /\ burden = 0
    /\ specFile = HeaderOnlySpec
    /\ compoFile = HeaderOnlyCompo
    /\ repo = None
    /\ normName = ""
    /\ normResult = NoResult
    /\ IdlePipe

NextFrame ==
    \/ ImportRules
    \/ ImportStopp
    \/ DetectInteractions(PairLists)
    \/ ReturnRules
    \/ EvaluateRules
    \/ ReturnStopp
    \/ ComputeBurdenScore
    \/ ReturnBurden
    \/ _cache_clear
    \/ Normalize
    \/ ReturnNorm

\* Any sequence of detect_interactions, evaluate_rules, compute_burden_score,
\* normalize and cache_clear calls, one at a time
SpecFrame == InitFrame /\ [][NextFrame]_vars

-----------------------------------------------------------------------------
(* Properties of the criterion loader.                                     *)

\* C24: whatever the external criterion source holds, building the registry
\* does not raise: the import of stopp_start never fails on the file or on
\* one of its records.
C24_SourceNeverRaises ==
    ~(/\ op = "import stopp_start"
      /\ outcome \in {"YAMLError", "KeyError", "ValueError"})

\* The ids of the enabled records of the file, in file order
RECURSIVE EnabledIds(_)
EnabledIds(raw) ==
    IF raw = <<>> THEN <<>>
    ELSE IF EnabledItem(Head(raw)) THEN <<Head(raw)["id"]>> \o EnabledIds(Tail(raw))
    ELSE EnabledIds(Tail(raw))

IsStart(r) == r.phase = "START"

IsNotStart(r) == r.phase # "START"

\* C25: the registry is the static criteria followed by the loaded ones in
\* load order, and each returned list holds, in registry order, one
\* description per fired criterion of its phase (START for starts, any other
\* phase for stops), equal descriptions included.
C25_RegistryOrderNoDedup ==
    Evaluated =>
        /\ [i \in 1..Len(_RULES) |-> _RULES[i].id]
              = [i \in 1..Len(StaticRules) |-> StaticRules[i].id]
                    \o EnabledIds(yamlFile.items)
        /\ stops = Descriptions(SelectSeq(Fired, IsNotStart))
        /\ starts = Descriptions(SelectSeq(Fired, IsStart))

\* C25 witness: a static criterion and two loaded criteria with the same
\* description fired, and the description is twice in stops after the
\* static one
C25_Witness ==
    /\ Evaluated
    /\ Len(stops) = 3
    /\ stops[1] = StaticRules[2].description
    /\ stops[2] = stops[3]
    /\ \E i, j \in 1..Len(Fired) :
          i < j /\ Fired[i].id # Fired[j].id
                /\ Fired[i].description = Fired[j].description

-----------------------------------------------------------------------------
(* renal.py.  Creatininemia is held in tenths of mg/dL, age and weight as  *)
(* integers; a clearance is the exact quotient num/den with den > 0.  On   *)
(* the inputs below the quotient is at 30 or 60 only for the factor 1.0,   *)
(* where the float arithmetic of the program is exact as well.             *)

\* clcr < n, clcr >= 0
Below(clcr, n) == clcr.num < n * clcr.den

NonNegative(clcr) == clcr.num >= 0

\* 0.85 if sex.strip().upper() in {"F", "FEMME"} else 1.0, in hundredths
Factor(sex) == IF Upper(Strip(sex)) \in {"F", "FEMME"} THEN 85 ELSE 100

\* ((140 - age) * weight) / (72 * creatinine) * factor
CockcroftGault(creatinine, age, weight, sex) ==
    [num |-> (140 - age) * weight * 10 * Factor(sex),
     den |-> 72 * creatinine * 100]

\* Mutant of calculate_clcr: the assertion on age is absent.
ClcrNoAgeAssert(creatinine, age, weight, sex) ==
    IF creatinine <= 0 \/ weight <= 0 THEN Raise("AssertionError")
    ELSE LET clcr == CockcroftGault(creatinine, age, weight, sex)
         IN IF ~NonNegative(clcr) THEN Raise("AssertionError") ELSE Return(clcr)

\* calculate_clcr(creatinine, age, weight, sex)
calculate_clcr(creatinine, age, weight, sex) ==
    IF creatinine <= 0 \/ weight <= 0 \/ age <= 0 THEN Raise("AssertionError")
    ELSE LET clcr == CockcroftGault(creatinine, age, weight, sex)
         IN IF ~NonNegative(clcr) THEN Raise("AssertionError") ELSE Return(clcr)

\* The three recommendations
Contraindication == "Contre-indication renale"

Reduction50 == "Reduction 50% posologique"

NormalPosology == "Posologie normale"

\* Mutant of adjust_for_renal: the thresholds belong to the lower tier.
AdjustInclusive(creatinine, age, weight, sex) ==
    LET r == calculate_clcr(creatinine, age, weight, sex)
    IN IF r.raised THEN r
       ELSE IF Below(r.value, 30) \/ r.value.num = 30 * r.value.den
            THEN Return(Contraindication)
       ELSE IF Below(r.value, 60) \/ r.value.num = 60 * r.value.den
            THEN Return(Reduction50)
       ELSE Return(NormalPosology)

\* adjust_for_renal(creatinine, age, weight, sex)
adjust_for_renal(creatinine, age, weight, sex) ==
    LET r == calculate_clcr(creatinine, age, weight, sex)
    IN IF r.raised THEN r
       ELSE IF Below(r.value, 30) THEN Return(Contraindication)
       ELSE IF Below(r.value, 60) THEN Return(Reduction50)
       ELSE Return(NormalPosology)

\* Arguments a caller can pass
Creatinines == {-10, 0, 5, 10, 15, 40}

RenalAges == {-1, 0, 32, 40, 80, 140, 141}

Weights == {-5, 0, 20, 40, 72}

Sexes == {"M", "F", " f ", "femme", "U"}

RenalArgs == [creatinine : Creatinines, age : RenalAges, weight : Weights, sex : Sexes]

InitRenal ==
    /\ IdleRules
    /\ IdleStopp
    /\ IdleBurden
    /\ IdleNorm
    /\ IdlePipe
    /\ IdleThreads
    /\ summaryCall = NoSummary
    /\ loadEnv = None
    /\ op = "idle"
    /\ renalArgs = NoRenalArgs
    /\ renalResult = NoResult

\* A call calculate_clcr(a.creatinine, a.age, a.weight, a.sex)
CalculateClcr ==
    /\ op = "idle"
    /\ op' = "calculate_clcr"
    /\ \E a \in RenalArgs :
          /\ renalArgs' = a
          /\ renalResult' = calculate_clcr(a.creatinine, a.age, a.weight, a.sex)
    /\ UNCHANGED <<varsRules, varsStopp, varsBurden, varsNorm, varsPipe, varsThreads, summaryCall, loadEnv>>

\* A call adjust_for_renal(a.creatinine, a.age, a.weight, a.sex)
AdjustForRenal ==
    /\ op = "idle"
    /\ op' = "adjust_for_renal"
    /\ \E a \in RenalArgs :
          /\ renalArgs' = a
          /\ renalResult' = adjust_for_renal(a.creatinine, a.age, a.weight, a.sex)
    /\ UNCHANGED <<varsRules, varsStopp, varsBurden, varsNorm, varsPipe, varsThreads, summaryCall, loadEnv>>

\* The caller takes the value or the exception
ReturnRenal ==
    /\ op \in {"calculate_clcr", "adjust_for_renal"}
    /\ op' = "idle"
    /\ renalArgs' = NoRenalArgs
    /\ renalResult' = NoResult
    /\ UNCHANGED <<varsRules, varsStopp, varsBurden, varsNorm, varsPipe, varsThreads, summaryCall, loadEnv>>

NextRenal == CalculateClcr \/ AdjustForRenal \/ ReturnRenal

SpecRenal == InitRenal /\ [][NextRenal]_vars

-----------------------------------------------------------------------------
(* Properties of the renal calculator.                                     *)

RenalCalled == op \in {"calculate_clcr", "adjust_for_renal"}

\* The clearance calculate_clcr gives on the arguments of the call held
Clearance ==
    calculate_clcr(renalArgs.creatinine, renalArgs.age, renalArgs.weight, renalArgs.sex)

\* C26: calculate_clcr and adjust_for_renal raise whenever creatinine <= 0,
\* age <= 0 or weight <= 0, whatever the other arguments are.
C26_InvalidInputRaises ==
    (/\ RenalCalled
     /\ (renalArgs.creatinine <= 0 \/ renalArgs.age <= 0 \/ renalArgs.weight <= 0))
        => renalResult.raised

\* C26 witness: adjust_for_renal raised on an age of 0 with the two other
\* quantities positive
C26_Witness ==
    /\ op = "adjust_for_renal"
    /\ renalArgs.age <= 0
    /\ renalArgs.creatinine > 0
    /\ renalArgs.weight > 0
    /\ renalResult.raised

\* C27: for creatinine > 0, age > 0 and weight > 0 and any sex string,
\* calculate_clcr does not raise and returns a clearance >= 0.
C27_ValidInputReturns ==
    (/\ op = "calculate_clcr"
     /\ renalArgs.creatinine > 0 /\ renalArgs.age > 0 /\ renalArgs.weight > 0)
        => (~renalResult.raised /\ NonNegative(renalResult.value))

\* C28: where calculate_clcr returns a clearance c, adjust_for_renal returns
\* the contraindication when c < 30, the 50% reduction when 30 <= c < 60
\* and the normal posology when c >= 60.
C28_ThreeTiers ==
    (op = "adjust_for_renal" /\ ~Clearance.raised) =>
        LET c == Clearance.value IN
        /\ ~renalResult.raised
        /\ renalResult.value \in {Contraindication, Reduction50, NormalPosology}
        /\ (renalResult.value = Contraindication <=> Below(c, 30))
        /\ (renalResult.value = Reduction50 <=> (~Below(c, 30) /\ Below(c, 60)))
        /\ (renalResult.value = NormalPosology <=> ~Below(c, 60))

\* C28 witness: a clearance of exactly 30 got the 50% reduction
C28_Witness ==
    /\ op = "adjust_for_renal"
    /\ ~Clearance.raised
    /\ Clearance.value.num = 30 * Clearance.value.den
    /\ renalResult = Return(Reduction50)

-----------------------------------------------------------------------------
(* get_interactions() called on its own, as the tests do.                  *)

\* Resource directories of these calls: files of at most one row, CSV and
\* PDF files in any glob order
LoaderDirs == SeqsUpTo(CsvFiles(CsvRowPool, 1) \cup PdfFiles(1), MaxFiles)

InitThesaurus ==
    /\ IdleStopp
    /\ IdleBurden
    /\ IdleNorm
    /\ IdlePipe
    /\ IdleAux
    /\ op = "idle"
    /\ resources \in LoaderDirs
    /\ RulesUnloaded

\* A call get_interactions(): the first one reads the files, the next ones
\* return the cached mapping
GetInteractions ==
    /\ op = "idle"
    /\ op' = "get_interactions"
    /\ IF loadEnv = None
       THEN \E env \in LoadEnvs :
               /\ thesaurus' = get_interactions(env)
               /\ loadEnv' = Some(env)
       ELSE UNCHANGED <<thesaurus, loadEnv>>
    /\ UNCHANGED <<resources, rulesLoaded, _INTERACTIONS, medications, problems, hits, lookups>>
    /\ UNCHANGED <<varsStopp, varsBurden, varsNorm, varsPipe, varsThreads, varsRenal, summaryCall>>

\* The caller takes the mapping
ReturnInteractions ==
    /\ op = "get_interactions"
    /\ op' = "idle"
    /\ UNCHANGED <<varsRules, varsStopp, varsBurden, varsNorm, varsPipe, varsAux>>

\* get_interactions.cache_clear()
ClearInteractions ==
    /\ op = "idle"
    /\ loadEnv # None
    /\ loadEnv' = None
    /\ thesaurus' = EmptyDict
    /\ UNCHANGED <<resources, rulesLoaded, _INTERACTIONS, medications, problems, hits, lookups, op>>
    /\ UNCHANGED <<varsStopp, varsBurden, varsNorm, varsPipe, varsThreads, varsRenal, summaryCall>>

NextThesaurus == GetInteractions \/ ReturnInteractions \/ ClearInteractions

SpecThesaurus == InitThesaurus /\ [][NextThesaurus]_vars

-----------------------------------------------------------------------------
(* Properties of get_interactions.                                         *)

IsCsv(fp) == fp.kind = "csv"

IsPdf(fp) == fp.kind = "pdf"

\* The files in the order they are tried: the CSV files, then the PDF files
Attempts == SelectSeq(resources, IsCsv) \o SelectSeq(resources, IsPdf)

\* What the loader of a file yields
Yield(fp, env) ==
    IF IsCsv(fp) THEN _load_from_csv(fp, env) ELSE _load_from_pdf(fp, env)

\* The loader of a file fails: the file cannot be opened or decoded,
\* extract_text raises
LoaderFails(fp, env) == IF IsCsv(fp) THEN ~env.io ELSE ~env.text

\* The attempts that yield entries
Yielding(env) == {i \in 1..Len(Attempts) : DOMAIN Yield(Attempts[i], env) # {}}

FirstYielding(env) == CHOOSE i \in Yielding(env) : \A j \in Yielding(env) : i <= j

\* The attempts get_interactions makes: up to the first that yields entries
Consulted(env) ==
    IF Yielding(env) = {} THEN 1..Len(Attempts) ELSE 1..FirstYielding(env)

-----------------------------------------------------------------------------
(* llm_orchestrator.py: generate_summary.  A generation by a local model   *)
(* and a reply of the remote API are choices of the environment, made anew *)
(* at each call; texts are held by what produced them.                     *)

\* str.lower() on the strategy names
Lower(s) ==
    CASE s = "Cascade"  -> "cascade"
      [] s = "ENSEMBLE" -> "ensemble"
      [] OTHER          -> s

\* MODEL_PATHS: the discovered models, or the three fixed aliases
MODEL_PATHS == <<"biomistral", "hippomistral", "medfound">>

NoKeyText == "[LLM] Modele local non trouve et HF_API_KEY absent."

\* What the request to the remote API meets: httpx.post(...).json() raises,
\* the reply holds a generated text, or the reply is a list whose first
\* element is not a container (the test at line 203 raises TypeError)
HttpOutcomes == {"post raises", "generated_text", "TypeError"}

\* _hf_generate(prompt)
_hf_generate(hf_key, http) ==
    IF ~hf_key THEN Return(NoKeyText)
    ELSE IF http = "post raises" THEN Return("[HF erreur]")
    ELSE IF http = "generated_text" THEN Return("remote text")
    ELSE Raise("TypeError")

\* _cached_local_generate(name, prompt_hash, prompt): a text, or the
\* exception of _load_model or of the generation
LocalOutcomes == {"returns", "raises"}

_cached_local_generate(gen) ==
    IF gen = "returns" THEN Return("local text") ELSE Raise("RuntimeError")

\* try: _cached_local_generate(...) except Exception: _hf_generate(...)
LocalElseRemote(gen, hf_key, http) ==
    IF ~_cached_local_generate(gen).raised THEN _cached_local_generate(gen)
    ELSE _hf_generate(hf_key, http)

\* Counter(responses).most_common(1)[0][0]: the most frequent response, the
\* earliest met among equals
Count(responses, x) == Cardinality({i \in 1..Len(responses) : responses[i] = x})

MostCommon(responses) ==
    LET best == CHOOSE i \in 1..Len(responses) :
                    /\ \A j \in 1..Len(responses) :
                          Count(responses, responses[j]) <= Count(responses, responses[i])
                    /\ \A j \in 1..(i - 1) :
                          Count(responses, responses[j]) < Count(responses, responses[i])
    IN responses[best]

\* The strategy generate_summary selects at lines 313-320
Strategy(model_name) ==
    IF Lower(model_name) \in {"cascade", "ensemble"} THEN Lower(model_name)
    ELSE "hybrid"

\* cascade_generate: three stages of one generation; ensemble_generate: one
\* round over MODEL_PATHS; hybrid_generate_summary: three such rounds
Passes(strat) == IF strat = "ensemble" THEN 1 ELSE 3

CallsPerPass(strat) == IF strat = "cascade" THEN 1 ELSE Len(MODEL_PATHS)

\* except Exception at line 321: the strategy's exception is dropped
StrategyRaises(r) == [summaryCall EXCEPT !.pc = "local", !.strategy = Some(r)]

ModelNames == {"cascade", "Cascade", "ensemble", "biomistral", "hybrid"}

InitSummary ==
    /\ IdleRules
    /\ IdleStopp
    /\ IdleBurden
    /\ IdleNorm
    /\ IdlePipe
    /\ IdleThreads
    /\ IdleRenal
    /\ loadEnv = None
    /\ op = "idle"
    /\ summaryCall = NoSummary

\* A call generate_summary(demographics, medications, problems, model_name)
\* in a process with or without HF_API_KEY
GenerateSummary ==
    /\ op = "idle"
    /\ op' = "generate_summary"
    /\ \E name \in ModelNames, key \in BOOLEAN :
          summaryCall' = [NoSummary EXCEPT !.pc = "strategy", !.model_name = name,
                                           !.hf_key = key]
    /\ UNCHANGED <<varsRules, varsStopp, varsBurden, varsNorm, varsPipe, varsThreads, varsRenal, loadEnv>>

\* One generation of the selected strategy: the local model, else the
\* remote API; the round's most common response feeds the next round, the
\* last round's is the strategy's output
StrategyStage ==
    /\ summaryCall.pc = "strategy"
    /\ \E gen \in LocalOutcomes, http \in HttpOutcomes :
       \E r \in {LocalElseRemote(gen, summaryCall.hf_key, http)} :
          LET strat     == Strategy(summaryCall.model_name)
              responses == Append(summaryCall.responses, r.value)
          IN IF r.raised
             THEN summaryCall' = StrategyRaises(r)
             ELSE IF Len(responses) < CallsPerPass(strat)
             THEN summaryCall' = [summaryCall EXCEPT !.responses = responses]
             ELSE IF summaryCall.pass < Passes(strat)
             THEN summaryCall' = [summaryCall EXCEPT !.pass = @ + 1,
                                                     !.responses = <<>>,
                                                     !.input = MostCommon(responses)]
             ELSE summaryCall' =
                     [summaryCall EXCEPT !.pc = "done",
                                         !.responses = <<>>,
                                         !.strategy = Some(Return(MostCommon(responses))),
                                         !.result = Return(MostCommon(responses))]
    /\ UNCHANGED <<varsRules, varsStopp, varsBurden, varsNorm, varsPipe, varsThreads, varsRenal, loadEnv, op>>

\* Lines 324-326: _resolve_name(model_name) (MODEL_PATHS is never empty, it
\* returns a name) and the local generation
LocalFallback ==
    /\ summaryCall.pc = "local"
    /\ \E gen \in LocalOutcomes :
       \E r \in {_cached_local_generate(gen)} :
          summaryCall' = IF r.raised
                         THEN [summaryCall EXCEPT !.pc = "remote", !.local = Some(r)]
                         ELSE [summaryCall EXCEPT !.pc = "done", !.local = Some(r),
                                                  !.result = r]
    /\ UNCHANGED <<varsRules, varsStopp, varsBurden, varsNorm, varsPipe, varsThreads, varsRenal, loadEnv, op>>

\* Lines 327-328: return _hf_generate(prompt)
RemoteFallback ==
    /\ summaryCall.pc = "remote"
    /\ \E http \in HttpOutcomes :
       \E r \in {_hf_generate(summaryCall.hf_key, http)} :
          summaryCall' = [summaryCall EXCEPT !.pc = "done", !.remote = Some(r),
                                             !.result = r]
    /\ UNCHANGED <<varsRules, varsStopp, varsBurden, varsNorm, varsPipe, varsThreads, varsRenal, loadEnv, op>>

\* The caller takes the text or the exception
ReturnSummary ==
    /\ op = "generate_summary"
    /\ summaryCall.pc = "done"
    /\ op' = "idle"
    /\ summaryCall' = NoSummary
    /\ UNCHANGED <<varsRules, varsStopp, varsBurden, varsNorm, varsPipe, varsThreads, varsRenal, loadEnv>>

NextSummary ==
    GenerateSummary \/ StrategyStage \/ LocalFallback \/ RemoteFallback \/ ReturnSummary

SpecSummary == InitSummary /\ [][NextSummary]_vars

-----------------------------------------------------------------------------
(* Properties of generate_summary.                                         *)

Succeeded(stage) == stage # None /\ ~stage[1].raised

Failed(stage) == stage # None /\ stage[1].raised

\* The fallback order: the local path is tried only after the strategy
\* raised, the remote fallback only after the local path raised, and the
\* output is that of the first step that succeeded
FallbackOrder ==
    /\ summaryCall.local # None => Failed(summaryCall.strategy)
    /\ summaryCall.remote # None => Failed(summaryCall.local)
    /\ summaryCall.pc = "done" =>
          /\ Succeeded(summaryCall.strategy) => summaryCall.result = summaryCall.strategy[1]
          /\ Succeeded(summaryCall.local) => summaryCall.result = summaryCall.local[1]
          /\ Failed(summaryCall.local) => summaryCall.result = summaryCall.remote[1]

\* C30: generate_summary follows the fallback order strategy, local model,
\* remote fallback, and always returns a string.
C30_FallbackOrderReturnsString ==
    /\ FallbackOrder
    /\ summaryCall.pc = "done" => ~summaryCall.result.raised

====
